---- MODULE Spec2Model ----
(***************************************************************************)
(* A model of the anomaly detection subsystem of powergrid-monitor:        *)
(*   - AnomalyDetector (src/anomaly_detection/detector.py): the rule-based *)
(*     threshold detector and its batch driver;                            *)
(*   - AnomalyDetectionEngine (src/anomaly_detection/engine.py): the       *)
(*     IsolationForest engine, its training and its detection cycle;       *)
(*   - TelemetryHandler.validate (src/common/telemetry.py) and the         *)
(*     dictionary conversions of SensorData (src/common/models.py).        *)
(*                                                                         *)
(* Readings carry integer volts, amperes and degrees.  Means and sample    *)
(* standard deviations are kept exact: a comparison  deviation >= k  is    *)
(* evaluated on the squared, cross-multiplied quantities, so no rounding   *)
(* is introduced by the model.  Alert descriptions (formatted text) are    *)
(* not part of the alert records.                                          *)
(***************************************************************************)
EXTENDS Integers, Sequences, FiniteSets, TLC

VARIABLES
    \* ---- AnomalyDetector.detect_anomaly, one call ----
    sensor_data,        \* the reading passed to detect_anomaly
    historical_data,    \* the history passed: None, or Some(list of readings)
    raised,             \* the alerts list before the sort (detector.py:59-74)
    result,             \* what detect_anomaly returned: None or Some(alert)
    dpc,                \* "input" before the call, "returned" after it
    \* ---- AnomalyDetector.detect_anomalies_batch, one call ----
    database,           \* self.database is set
    sensor_data_list,   \* the batch passed to detect_anomalies_batch
    store,              \* per device: None (get_recent_data raises) or Some(rows)
    bpc,                \* position in detect_anomalies_batch
    groups,             \* device_groups: the device ids in first-seen order
    gi,                 \* index of the device being processed in groups
    device_data,        \* the readings of that device, in arrival order
    di,                 \* index in device_data of the next reading to evaluate
    historical,         \* the working context of that device
    balerts,            \* the alerts list being built
    \* ---- AnomalyDetectionEngine: the object ----
    is_trained,         \* self.is_trained
    scaler,             \* self.scaler: 0 unfitted, k fitted by train_model call k
    isolation_forest,   \* self.isolation_forest: None or Some(forest)
    train_calls,        \* number of train_model calls made so far
    \* ---- AnomalyDetectionEngine: direct calls of its methods ----
    call,               \* the last direct call and what it returned
    \* ---- AnomalyDetectionEngine: run_detection_cycle / run_continuous ----
    continuous,         \* run_continuous (TRUE) or a single --once cycle
    redis_client,       \* self.redis_client is set
    epc,                \* position of the scheduler
    cycle,              \* number of detection cycles started
    recent_data,        \* recent_data of the current cycle
    ealerts,            \* alerts of the current cycle
    pidx,               \* index in ealerts of the next alert to publish
    steps,              \* what the current cycle has done so far, in order
    pushed,             \* alerts the current cycle put on the Redis list
    channel,            \* alerts the current cycle published on the channel
    attempts,           \* alerts the current cycle handed to publish_alert
    \* ---- TelemetryHandler.validate, one call ----
    telemetry,          \* the reading passed to validate
    validation,         \* what validate returned: None or Some(result)
    vpc,                \* "input" before the call, "returned" after it
    \* ---- SensorData.to_dict / SensorData.from_dict ----
    original,           \* the SensorData to convert: None or Some(d)
    data_dict,          \* what to_dict returned: None or Some(dict)
    restored,           \* what from_dict returned: None or Some(d)
    rpc,                \* "start", "dict" after to_dict, "done" after from_dict
    \* ---- ingestion service: process_mqtt_message and consume_queue ----
    arrived,            \* sizes of the message arrivals so far (1, or a burst)
    message_queue,      \* state.message_queue
    pending_batch,      \* the list `batch` of consume_queue
    inserts,            \* the insert_batch attempts: [batch, ok]
    ipc                 \* where consume_queue is: "get" or "insert"

detVars == <<sensor_data, historical_data, raised, result, dpc>>
batchVars == <<database, sensor_data_list, store, bpc, groups, gi, device_data,
               di, historical, balerts>>
objVars == <<is_trained, scaler, isolation_forest, train_calls>>
cycleVars == <<continuous, redis_client, epc, cycle, recent_data, ealerts, pidx,
               steps, pushed, channel, attempts>>
engVars == <<objVars, call, cycleVars>>
valVars == <<telemetry, validation, vpc>>
rtVars == <<original, data_dict, restored, rpc>>
ingVars == <<arrived, message_queue, pending_batch, inserts, ipc>>
commonVars == <<valVars, rtVars, ingVars>>
vars == <<detVars, batchVars, engVars, commonVars>>

----------------------------------------------------------------------------
(* Optional values: None is the empty sequence, Some(x) a one-element one. *)
None == <<>>
Some(x) == <<x>>
IsNone(o) == o = <<>>
Get(o) == o[1]

Abs(x) == IF x < 0 THEN -x ELSE x

RECURSIVE SumSeq(_)
SumSeq(s) ==
    IF s = <<>> THEN 0
    ELSE IF Len(s) = 1 THEN s[1]
    ELSE LET half == Len(s) \div 2
         IN  SumSeq(SubSeq(s, 1, half)) + SumSeq(SubSeq(s, half + 1, Len(s)))

Squares(s) == [i \in 1..Len(s) |-> s[i] * s[i]]

----------------------------------------------------------------------------
(* Class constants of AnomalyDetector.                                     *)
VOLTAGE_NOMINAL == 230
VOLTAGE_STD_DEV == 5
VOLTAGE_ANOMALY_THRESHOLD == 3
CURRENT_NOMINAL == 4
CURRENT_STD_DEV == 1
CURRENT_ANOMALY_THRESHOLD == 3
TEMPERATURE_NOMINAL == 35
TEMPERATURE_STD_DEV == 5
TEMPERATURE_ANOMALY_THRESHOLD == 3
VOLTAGE_MIN_SAFE == 200
VOLTAGE_MAX_SAFE == 250
TEMPERATURE_MAX_SAFE == 70
HighDeviation == 4          \* the literal 4.0 of the severity ladder
MediumDeviation == 3        \* the literal 3.0 of the severity ladder
TemperatureHighRaw == 60    \* the literal 60 of _check_temperature
HistoryLimit == 100         \* limit=100 and historical[-100:]

SensorData(d, ts, v, c, t) ==
    [device_id |-> d, timestamp |-> ts, voltage |-> v, current |-> c,
     temperature |-> t]

AnomalyAlert(d, ts, m, val, range, sev) ==
    [device_id |-> d, timestamp |-> ts, metric |-> m, value |-> val,
     expected_range |-> range, severity |-> sev]

(* `if historical:` -- a history that is neither None nor empty.           *)
Truthy(hist) == ~IsNone(hist) /\ Get(hist) # <<>>

(* The baseline of a metric: [d.<metric> for d in historical], then        *)
(* statistics.mean and statistics.stdev, or the nominal constants.  The    *)
(* mean is kept as the pair sum/n, and the sample variance as              *)
(* ss / (n*n*(n-1)) with ss = sum((n*x - sum)^2), which is n*n times the   *)
(* sum of squared deviations from the mean that statistics.stdev takes.    *)
(* fixedStd is the nominal std-dev when the code falls back to it (no      *)
(* history, or a single point), else 0.                                    *)
ScaledDeviations(values) ==
    [i \in 1..Len(values) |-> Len(values) * values[i] - SumSeq(values)]

(* A baseline that ignores a single-point history altogether.              *)
BaselineNeedingTwoPoints(values, NOMINAL, STD_DEV) ==
    IF Len(values) > 1
    THEN [n |-> Len(values), sum |-> SumSeq(values),
          ss |-> SumSeq(Squares(ScaledDeviations(values))), fixedStd |-> 0]
    ELSE [n |-> 1, sum |-> NOMINAL, ss |-> 0, fixedStd |-> STD_DEV]

Baseline(values, NOMINAL, STD_DEV) ==
    IF values = <<>>
    THEN [n |-> 1, sum |-> NOMINAL, ss |-> 0, fixedStd |-> STD_DEV]
    ELSE IF Len(values) > 1
         THEN [n |-> Len(values), sum |-> SumSeq(values),
               ss |-> SumSeq(Squares(ScaledDeviations(values))), fixedStd |-> 0]
         ELSE [n |-> 1, sum |-> SumSeq(values), ss |-> 0, fixedStd |-> STD_DEV]

(* A test that lets a zero std-dev through to the division.               *)
StdDevAlwaysPositive(b) == TRUE

(* std_dev > 0                                                             *)
StdDevPositive(b) == IF b.fixedStd > 0 THEN TRUE ELSE b.ss > 0

(* deviation >= k, for deviation = abs(value - mean) / std_dev if          *)
(* std_dev > 0 else 0, and k > 0.                                          *)
DeviationAtLeast(k, value, b) ==
    IF ~StdDevPositive(b) THEN 0 >= k
    ELSE IF b.fixedStd > 0
         THEN Abs(b.n * value - b.sum) >= k * b.fixedStd * b.n
         ELSE (b.n - 1) * (b.n * value - b.sum) * (b.n * value - b.sum)
                  >= k * k * b.ss

Column(hist, metric) ==
    IF Truthy(hist) THEN [i \in 1..Len(Get(hist)) |-> Get(hist)[i][metric]]
    ELSE <<>>

VoltageBaseline(hist) ==
    Baseline(Column(hist, "voltage"), VOLTAGE_NOMINAL, VOLTAGE_STD_DEV)
CurrentBaseline(hist) ==
    Baseline(Column(hist, "current"), CURRENT_NOMINAL, CURRENT_STD_DEV)
TemperatureBaseline(hist) ==
    Baseline(Column(hist, "temperature"), TEMPERATURE_NOMINAL, TEMPERATURE_STD_DEV)

(* A ladder whose 'high' rung starts at the alert threshold.               *)
LadderSeverityHighFromThreshold(value, b) ==
    IF DeviationAtLeast(MediumDeviation, value, b) THEN "high"
    ELSE "low"

(* The severity ladder of _check_voltage and _check_current.               *)
LadderSeverity(value, b) ==
    IF DeviationAtLeast(HighDeviation, value, b) THEN "high"
    ELSE IF DeviationAtLeast(MediumDeviation, value, b) THEN "medium"
    ELSE "low"

(* The temperature ladder without the raw-value rule.                     *)
TemperatureSeverityByDeviationOnly(value, b) ==
    IF DeviationAtLeast(HighDeviation, value, b) THEN "high"
    ELSE IF DeviationAtLeast(MediumDeviation, value, b) THEN "medium"
    ELSE "low"

(* The severity ladder of _check_temperature.                              *)
TemperatureSeverity(value, b) ==
    IF DeviationAtLeast(HighDeviation, value, b) \/ value > TemperatureHighRaw
    THEN "high"
    ELSE IF DeviationAtLeast(MediumDeviation, value, b) THEN "medium"
    ELSE "low"

VoltageOutOfRange(voltage) ==
    voltage < VOLTAGE_MIN_SAFE \/ voltage > VOLTAGE_MAX_SAFE

_check_voltage(data, hist) ==
    LET voltage == data.voltage
        b == VoltageBaseline(hist)
        alert(sev) == Some(AnomalyAlert(data.device_id, data.timestamp, "voltage",
                           voltage, <<VOLTAGE_MIN_SAFE, VOLTAGE_MAX_SAFE>>, sev))
    IN  IF VoltageOutOfRange(voltage) THEN alert("high")
        ELSE IF DeviationAtLeast(VOLTAGE_ANOMALY_THRESHOLD, voltage, b)
             THEN alert(LadderSeverity(voltage, b))
             ELSE None

_check_current(data, hist) ==
    LET current == data.current
        b == CurrentBaseline(hist)
    IN  IF DeviationAtLeast(CURRENT_ANOMALY_THRESHOLD, current, b)
        THEN Some(AnomalyAlert(data.device_id, data.timestamp, "current",
                               current, <<0, 10>>, LadderSeverity(current, b)))
        ELSE None

TemperatureOutOfRange(temperature) == temperature > TEMPERATURE_MAX_SAFE

_check_temperature(data, hist) ==
    LET temperature == data.temperature
        b == TemperatureBaseline(hist)
        alert(sev) == Some(AnomalyAlert(data.device_id, data.timestamp,
                           "temperature", temperature,
                           <<0, TEMPERATURE_MAX_SAFE>>, sev))
    IN  IF TemperatureOutOfRange(temperature) THEN alert("high")
        ELSE IF DeviationAtLeast(TEMPERATURE_ANOMALY_THRESHOLD, temperature, b)
             THEN alert(TemperatureSeverity(temperature, b))
             ELSE None

(* severity_order.get(a.severity, 0)                                       *)
severity_order(sev) ==
    IF sev = "high" THEN 3 ELSE IF sev = "medium" THEN 2
    ELSE IF sev = "low" THEN 1 ELSE 0

WithRank(alerts, r) == SelectSeq(alerts, LAMBDA a : severity_order(a.severity) = r)

(* A sort that orders by descending rank but reverses runs of equal rank.  *)
SortReversingTies(alerts) ==
    LET rev == [i \in 1..Len(alerts) |-> alerts[Len(alerts) + 1 - i]]
    IN  WithRank(rev, 3) \o WithRank(rev, 2) \o WithRank(rev, 1) \o WithRank(rev, 0)

(* alerts.sort(key=..., reverse=True): list.sort is stable, and with       *)
(* reverse=True elements of equal key keep their original order.           *)
SortBySeverity(alerts) ==
    WithRank(alerts, 3) \o WithRank(alerts, 2) \o WithRank(alerts, 1)
        \o WithRank(alerts, 0)

(* alerts as collected by detect_anomaly before the sort.                  *)
RaisedAlerts(data, hist) ==
    _check_voltage(data, hist) \o _check_current(data, hist)
        \o _check_temperature(data, hist)

(* detect_anomaly handing back every alert raised instead of one.         *)
detect_anomaly_AllRaised(data, hist) == RaisedAlerts(data, hist)

(* detect_anomaly returning the first alert raised, without the sort.     *)
detect_anomaly_FirstRaised(data, hist) ==
    LET alerts == RaisedAlerts(data, hist)
    IN  IF alerts # <<>> THEN Some(alerts[1]) ELSE None

detect_anomaly(data, hist) ==
    LET alerts == RaisedAlerts(data, hist)
    IN  IF alerts # <<>> THEN Some(SortBySeverity(alerts)[1]) ELSE None

----------------------------------------------------------------------------
(* Inputs of the model.                                                    *)
MaxHist == 2        \* longest history handed to detect_anomaly
MaxBatch == 3       \* longest batch handed to detect_anomalies_batch

Devices == {"d1", "d2"}

VoltageVals == {195, 200, 215, 230, 250, 255}
CurrentVals == {1, 4, 7, 8}
TemperatureVals == {35, 50, 55, 65, 75}

Readings ==
    {SensorData("d1", 1, v, c, t) :
        v \in VoltageVals, c \in CurrentVals, t \in TemperatureVals}

(* The <<voltage, current, temperature>> of the readings found in storage. *)
HistTriples == {<<230, 4, 35>>, <<227, 4, 45>>, <<233, 5, 50>>}

SeqsUpTo(S, n) == UNION {[1..k -> S] : k \in 0..n}

(* Rows as storage returns them for device d: newest first.                *)
Rows(d, triples) ==
    [i \in 1..Len(triples) |->
        SensorData(d, 0 - i, triples[i][1], triples[i][2], triples[i][3])]

Histories ==
    {None} \cup {Some(Rows("d1", h)) : h \in SeqsUpTo(HistTriples, MaxHist)}

LastN(s, n) == IF Len(s) <= n THEN s ELSE SubSeq(s, Len(s) - n + 1, Len(s))
FirstN(s, n) == IF Len(s) <= n THEN s ELSE SubSeq(s, 1, n)

(* The batch variables while no batch call is being modelled.              *)
BatchIdle ==
    /\ database = FALSE
    /\ sensor_data_list = <<>>
    /\ store = [d \in Devices |-> None]
    /\ bpc = "idle"
    /\ groups = <<>>
    /\ gi = 0
    /\ device_data = <<>>
    /\ di = 0
    /\ historical = None
    /\ balerts = <<>>

(* The detect_anomaly variables while no single call is being modelled.    *)
DetectIdle ==
    /\ sensor_data = SensorData("d1", 1, VOLTAGE_NOMINAL, CURRENT_NOMINAL,
                                TEMPERATURE_NOMINAL)
    /\ historical_data = None
    /\ raised = <<>>
    /\ result = None
    /\ dpc = "idle"

(* A forest that holds no fitted parameters.                               *)
NoModel == [offset |-> 0, far |-> 0, near |-> 0]

(* `again` marks a detect_anomalies call that was handed the batch of the  *)
(* detect_anomalies call made just before it.                              *)
NoCall == [seq |-> 0, op |-> "none", n |-> 0, batch |-> <<>>, raised |-> FALSE,
           alerts |-> <<>>, again |-> FALSE]

(* AnomalyDetectionEngine.__init__ (engine.py:50-52).                      *)
Constructed ==
    /\ is_trained = FALSE
    /\ scaler = 0
    /\ isolation_forest = None
    /\ train_calls = 0

(* The scheduler variables while no scheduler is being modelled.           *)
SchedulerIdle ==
    /\ continuous = FALSE
    /\ redis_client = FALSE
    /\ epc = "idle"
    /\ cycle = 0
    /\ recent_data = <<>>
    /\ ealerts = <<>>
    /\ pidx = 0
    /\ steps = <<>>
    /\ pushed = <<>>
    /\ channel = <<>>
    /\ attempts = <<>>

EngineIdle == Constructed /\ call = NoCall /\ SchedulerIdle

(* The validate variables while no validate call is being modelled.        *)
ValidateIdle ==
    /\ telemetry = SensorData("d1", 1, VOLTAGE_NOMINAL, CURRENT_NOMINAL,
                              TEMPERATURE_NOMINAL)
    /\ validation = None
    /\ vpc = "idle"

(* The conversion variables while no conversion is being modelled.         *)
RoundTripIdle ==
    /\ original = None
    /\ data_dict = None
    /\ restored = None
    /\ rpc = "idle"

(* The ingestion variables while no ingestion service is being modelled.   *)
IngestIdle ==
    /\ arrived = <<>>
    /\ message_queue = <<>>
    /\ pending_batch = <<>>
    /\ inserts = <<>>
    /\ ipc = "idle"

CommonIdle == ValidateIdle /\ RoundTripIdle /\ IngestIdle

----------------------------------------------------------------------------
(* AnomalyDetector.detect_anomaly: one call on an arbitrary reading and    *)
(* history.                                                                *)
DetectInit ==
    /\ sensor_data \in Readings
    /\ historical_data \in Histories
    /\ raised = <<>>
    /\ result = None
    /\ dpc = "input"
    /\ BatchIdle
    /\ EngineIdle
    /\ CommonIdle

DetectAnomaly ==
    /\ dpc = "input"
    /\ raised' = RaisedAlerts(sensor_data, historical_data)
    /\ result' = detect_anomaly(sensor_data, historical_data)
    /\ dpc' = "returned"
    /\ UNCHANGED <<sensor_data, historical_data, batchVars, engVars,
                   commonVars>>

DetectNext == DetectAnomaly

SpecDetect == DetectInit /\ [][DetectNext]_vars

----------------------------------------------------------------------------
(* AnomalyDetector.detect_anomalies_batch: one call, a step per loop       *)
(* iteration.                                                              *)
BatchReadings == {<<230, 4, 35>>, <<245, 4, 35>>, <<233, 5, 50>>}

Batches ==
    {[i \in 1..Len(b) |->
        SensorData(b[i][1], i, b[i][2][1], b[i][2][2], b[i][2][3])] :
        b \in SeqsUpTo(Devices \X BatchReadings, MaxBatch)}

Seeds(d) ==
    {None} \cup {Some(Rows(d, h)) : h \in {<<>>, <<<<230, 4, 35>>>>,
                                           <<<<227, 4, 45>>, <<233, 5, 50>>>>}}

RECURSIVE FirstSeen(_, _)
(* The keys of device_groups in insertion order (detector.py:213-217).     *)
FirstSeen(list, seen) ==
    IF list = <<>> THEN <<>>
    ELSE IF Head(list).device_id \in seen THEN FirstSeen(Tail(list), seen)
         ELSE <<Head(list).device_id>>
                  \o FirstSeen(Tail(list), seen \cup {Head(list).device_id})

BatchInit ==
    /\ DetectIdle
    /\ EngineIdle
    /\ CommonIdle
    /\ database \in BOOLEAN
    /\ sensor_data_list \in Batches
    /\ store \in {f \in [Devices -> UNION {Seeds(d) : d \in Devices}] :
                     \A d \in Devices : f[d] \in Seeds(d)}
    /\ bpc = "start"
    /\ groups = <<>>
    /\ gi = 0
    /\ device_data = <<>>
    /\ di = 0
    /\ historical = None
    /\ balerts = <<>>

(* detector.py:210-217: group the batch by device.                         *)
BatchGroup ==
    /\ bpc = "start"
    /\ groups' = FirstSeen(sensor_data_list, {})
    /\ gi' = 1
    /\ bpc' = IF sensor_data_list = <<>> THEN "done" ELSE "fetch"
    /\ UNCHANGED <<commonVars, engVars, detVars, database, sensor_data_list,
                   store, device_data, di, historical, balerts>>

(* A fetch whose failure leaves an empty history behind.                   *)
FetchHistory_EmptyOnFailure(device_id) ==
    IF database /\ ~IsNone(store[device_id])
    THEN Some(FirstN(Get(store[device_id]), HistoryLimit))
    ELSE Some(<<>>)

(* get_recent_data(device_id, limit=100) as detect_anomalies_batch sees    *)
(* it: None when there is no database or the call raises.                  *)
FetchHistory(device_id) ==
    IF database /\ ~IsNone(store[device_id])
    THEN Some(FirstN(Get(store[device_id]), HistoryLimit))
    ELSE None

(* A loop that fetches once and carries the context over to the next      *)
(* device.                                                                 *)
BatchFetch_SharedContext ==
    /\ bpc = "fetch"
    /\ device_data' =
           SelectSeq(sensor_data_list, LAMBDA r : r.device_id = groups[gi])
    /\ historical' = IF gi = 1 THEN FetchHistory(groups[gi]) ELSE historical
    /\ di' = 1
    /\ bpc' = "eval"
    /\ UNCHANGED <<commonVars, engVars, detVars, database, sensor_data_list,
                   store, groups, gi, balerts>>

(* detector.py:219-226: enter the loop body for the next device.           *)
BatchFetch ==
    /\ bpc = "fetch"
    /\ device_data' =
           SelectSeq(sensor_data_list, LAMBDA r : r.device_id = groups[gi])
    /\ historical' = FetchHistory(groups[gi])
    /\ di' = 1
    /\ bpc' = "eval"
    /\ UNCHANGED <<commonVars, engVars, detVars, database, sensor_data_list,
                   store, groups, gi, balerts>>

(* A context that grows with every appended reading.                      *)
ContextAfter_Unbounded(hist, data, alert) ==
    IF ~IsNone(alert) /\ ~IsNone(hist)
    THEN Some(Append(Get(hist), data))
    ELSE hist

(* detector.py:231-237: the context after a reading was evaluated.         *)
ContextAfter(hist, data, alert) ==
    IF ~IsNone(alert) /\ ~IsNone(hist)
    THEN Some(LastN(Append(Get(hist), data), HistoryLimit))
    ELSE hist

(* detector.py:229-237: evaluate one reading of the current device.        *)
BatchEval ==
    /\ bpc = "eval"
    /\ di <= Len(device_data)
    /\ LET data == device_data[di]
           alert == detect_anomaly(data, historical)
       IN  /\ balerts' = balerts \o alert
           /\ historical' = ContextAfter(historical, data, alert)
    /\ di' = di + 1
    /\ UNCHANGED <<commonVars, engVars, detVars, database, sensor_data_list,
                   store, bpc, groups, gi, device_data>>

(* The inner loop is exhausted: next device, or return alerts.             *)
BatchNextDevice ==
    /\ bpc = "eval"
    /\ di > Len(device_data)
    /\ IF gi < Len(groups)
       THEN gi' = gi + 1 /\ bpc' = "fetch"
       ELSE gi' = gi /\ bpc' = "done"
    /\ UNCHANGED <<commonVars, engVars, detVars, database, sensor_data_list,
                   store, groups, device_data, di, historical, balerts>>

BatchNext == BatchGroup \/ BatchFetch \/ BatchEval \/ BatchNextDevice

SpecBatch == BatchInit /\ [][BatchNext]_vars

(* detect_anomalies_batch over stored histories long enough to meet the    *)
(* limit of 100 rows: the table holds 99, 100 or 101 rows of the device,   *)
(* newest first, whose readings alternate around the nominal values.       *)
LongTriple(i) == <<229 + 2 * (i % 2), 4, 34 + 2 * (i % 2)>>

LongRows(d, n) == Rows(d, [i \in 1..n |-> LongTriple(i)])

LongSizes == {HistoryLimit - 1, HistoryLimit, HistoryLimit + 1}

(* Batches of device d1 with nominal and high-voltage readings.            *)
WindowBatches ==
    {b \in Batches :
        \A i \in 1..Len(b) : b[i].device_id = "d1" /\ b[i].temperature = 35}

WindowInit ==
    /\ DetectIdle
    /\ EngineIdle
    /\ CommonIdle
    /\ database = TRUE
    /\ sensor_data_list \in WindowBatches
    /\ store \in {f \in [Devices -> {None} \cup
                         {Some(LongRows("d1", n)) : n \in LongSizes}] :
                     ~IsNone(f["d1"]) /\ IsNone(f["d2"])}
    /\ bpc = "start"
    /\ groups = <<>>
    /\ gi = 0
    /\ device_data = <<>>
    /\ di = 0
    /\ historical = None
    /\ balerts = <<>>

SpecWindow == WindowInit /\ [][BatchNext]_vars

----------------------------------------------------------------------------
(* AnomalyDetectionEngine (engine.py).  Anomaly scores are kept in         *)
(* hundredths: the score -0.5 is -50.                                      *)
MinTrainingSamples == 10    \* len(training_data) < 10
HighScore == -50            \* score < -0.5
MediumScore == -30          \* score < -0.3
NominalVoltage == 230       \* abs(data.voltage - 230.0)
NominalCurrent == 4         \* abs(data.current - 4.0)
NominalTemperature == 35    \* abs(data.temperature - 35.0)

MaxTrainCalls == 2  \* train_model calls in one behaviour
MaxCalls == 3       \* direct calls in one behaviour
MaxScore == 2       \* longest batch handed to detect_anomalies directly
MaxRecent == 2      \* longest batch a detection cycle fetches
MaxCycles == 2      \* detection cycles in one behaviour

(* prepare_features: the feature vector of one reading.                    *)
prepare_features(data) ==
    <<data.voltage, data.current, data.temperature,
      data.voltage * data.current,
      Abs(data.voltage - NominalVoltage),
      Abs(data.current - NominalCurrent)>>

(* What a fit of the IsolationForest can produce.  A fitted forest is      *)
(* summarised by its offset_ and by the score_samples value it gives to    *)
(* feature vectors far from and near the training cloud; predict is -1     *)
(* where score_samples is below offset_.                                   *)
ForestModels ==
    {[offset |-> -35, far |-> -55, near |-> -30],
     [offset |-> -25, far |-> -40, near |-> -30],
     [offset |-> -60, far |-> -55, near |-> -20],
     [offset |-> -45, far |-> -50, near |-> -50]}

IsFar(features) == features[5] >= 10 \/ features[6] >= 3 \/ features[3] >= 60

score_samples(model, features) == IF IsFar(features) THEN model.far ELSE model.near
predict(model, features) ==
    IF score_samples(model, features) < model.offset THEN -1 ELSE 1

(* How a train_model call past the size check can end: both fits succeed   *)
(* with some fitted forest; scaler.fit_transform raises, leaving the       *)
(* scaler as it was or reset to unfitted; IsolationForest.fit raises.      *)
FitOutcomes ==
    {[kind |-> "ok", model |-> m] : m \in ForestModels}
        \cup {[kind |-> k, model |-> NoModel] :
                 k \in {"scaler_raises_kept", "scaler_raises_reset", "forest_raises"}}

Engine(trained, sc, forest, raisedFlag) ==
    [is_trained |-> trained, scaler |-> sc, isolation_forest |-> forest,
     raised |-> raisedFlag]

Forest(k, isFitted, m) == [made |-> k, fitted |-> isFitted, model |-> m]

(* train_model with the size check placed after the scaler was fitted.     *)
train_model_ScalingFirst(trained, sc, forest, k, training_data, outcome) ==
    IF outcome.kind = "scaler_raises_kept" THEN Engine(trained, sc, forest, TRUE)
    ELSE IF outcome.kind = "scaler_raises_reset" THEN Engine(trained, 0, forest, TRUE)
    ELSE IF Len(training_data) < MinTrainingSamples
         THEN Engine(trained, k, forest, FALSE)
    ELSE IF outcome.kind = "forest_raises"
         THEN Engine(trained, k, Some(Forest(k, FALSE, NoModel)), TRUE)
    ELSE Engine(TRUE, k, Some(Forest(k, TRUE, outcome.model)), FALSE)

(* train_model that marks the engine untrained when a fit raises.          *)
train_model_UntrainedOnFailure(trained, sc, forest, k, training_data, outcome) ==
    IF Len(training_data) < MinTrainingSamples
    THEN Engine(trained, sc, forest, FALSE)
    ELSE IF outcome.kind = "scaler_raises_kept" THEN Engine(FALSE, sc, forest, TRUE)
    ELSE IF outcome.kind = "scaler_raises_reset" THEN Engine(FALSE, 0, forest, TRUE)
    ELSE IF outcome.kind = "forest_raises"
         THEN Engine(FALSE, k, Some(Forest(k, FALSE, NoModel)), TRUE)
    ELSE Engine(TRUE, k, Some(Forest(k, TRUE, outcome.model)), FALSE)

(* train_model (engine.py:100-125), the k-th call, on the engine state     *)
(* <<trained, sc, forest>>: the state it leaves and whether it raised.     *)
train_model(trained, sc, forest, k, training_data, outcome) ==
    IF Len(training_data) < MinTrainingSamples
    THEN Engine(trained, sc, forest, FALSE)
    ELSE IF outcome.kind = "scaler_raises_kept" THEN Engine(trained, sc, forest, TRUE)
    ELSE IF outcome.kind = "scaler_raises_reset" THEN Engine(trained, 0, forest, TRUE)
    ELSE IF outcome.kind = "forest_raises"
         THEN Engine(trained, k, Some(Forest(k, FALSE, NoModel)), TRUE)
    ELSE Engine(TRUE, k, Some(Forest(k, TRUE, outcome.model)), FALSE)

(* Tiers whose thresholds belong to the more severe side.                  *)
ScoreSeverityInclusive(score) ==
    IF score <= HighScore THEN "high"
    ELSE IF score <= MediumScore THEN "medium"
    ELSE "low"

(* engine.py:154-160                                                       *)
ScoreSeverity(score) ==
    IF score < HighScore THEN "high"
    ELSE IF score < MediumScore THEN "medium"
    ELSE "low"

(* engine.py:162-181: the metric an outlier is attributed to.              *)
AttributedMetric(data) ==
    LET voltage_dev == Abs(data.voltage - NominalVoltage)
        current_dev == Abs(data.current - NominalCurrent)
        temp_dev == Abs(data.temperature - NominalTemperature)
    IN  IF voltage_dev > current_dev /\ voltage_dev > temp_dev THEN "voltage"
        ELSE IF current_dev > temp_dev THEN "current"
        ELSE "temperature"

(* engine.py:152-192: the alerts (none or one) of one reading.             *)
AlertsOf(model, data) ==
    LET features == prepare_features(data)
        metric == AttributedMetric(data)
    IN  IF predict(model, features) = -1
        THEN <<AnomalyAlert(data.device_id, data.timestamp, metric,
                   IF metric = "voltage" THEN data.voltage
                   ELSE IF metric = "current" THEN data.current
                   ELSE data.temperature,
                   IF metric = "voltage" THEN <<200, 250>>
                   ELSE IF metric = "current" THEN <<0, 10>>
                   ELSE <<0, 80>>,
                   ScoreSeverity(score_samples(model, features)))>>
        ELSE <<>>

RECURSIVE AlertsOfAll(_, _)
AlertsOfAll(model, list) ==
    IF list = <<>> THEN <<>>
    ELSE AlertsOf(model, Head(list)) \o AlertsOfAll(model, Tail(list))

Returns(alerts) == [raised |-> FALSE, alerts |-> alerts]
Raises == [raised |-> TRUE, alerts |-> <<>>]

(* detect_anomalies whose gate looks at self.isolation_forest only.        *)
detect_anomalies_ForestGateOnly(trained, sc, forest, list) ==
    IF IsNone(forest) THEN Returns(<<>>)
    ELSE IF list = <<>> THEN Returns(<<>>)
    ELSE IF sc = 0 THEN Raises
    ELSE IF ~Get(forest).fitted THEN Raises
    ELSE Returns(AlertsOfAll(Get(forest).model, list))

(* detect_anomalies (engine.py:127-194): scaler.transform and              *)
(* isolation_forest.predict raise NotFittedError on an unfitted estimator. *)
detect_anomalies(trained, sc, forest, list) ==
    IF ~trained \/ IsNone(forest) THEN Returns(<<>>)
    ELSE IF list = <<>> THEN Returns(<<>>)
    ELSE IF sc = 0 THEN Raises
    ELSE IF ~Get(forest).fitted THEN Raises
    ELSE Returns(AlertsOfAll(Get(forest).model, list))

----------------------------------------------------------------------------
(* The inputs of the engine.                                               *)
ScoreTriples ==
    {<<250, 4, 35>>, <<232, 6, 35>>, <<230, 6, 37>>, <<230, 4, 60>>}

Listed(d, triples) ==
    [i \in 1..Len(triples) |->
        SensorData(d, i, triples[i][1], triples[i][2], triples[i][3])]

ScoreBatches == {Listed("d1", b) : b \in SeqsUpTo(ScoreTriples, MaxScore)}

TrainingSizes == {0, 9, 10}

TrainingData(n) ==
    [i \in 1..n |-> SensorData("d1", i, NominalVoltage, NominalCurrent,
                               NominalTemperature)]

----------------------------------------------------------------------------
(* Direct use of the engine object: train_model and detect_anomalies       *)
(* called in any order.                                                    *)
ModelInit ==
    /\ DetectIdle
    /\ BatchIdle
    /\ CommonIdle
    /\ Constructed
    /\ call = NoCall
    /\ SchedulerIdle

TrainModelCall ==
    /\ call.seq < MaxCalls
    /\ train_calls < MaxTrainCalls
    /\ \E n \in TrainingSizes, outcome \in FitOutcomes :
           LET e == train_model(is_trained, scaler, isolation_forest,
                                train_calls + 1, TrainingData(n), outcome)
           IN  /\ is_trained' = e.is_trained
               /\ scaler' = e.scaler
               /\ isolation_forest' = e.isolation_forest
               /\ call' = [seq |-> call.seq + 1, op |-> "train_model", n |-> n,
                           batch |-> <<>>, raised |-> e.raised, alerts |-> <<>>,
                           again |-> FALSE]
    /\ train_calls' = train_calls + 1
    /\ UNCHANGED <<commonVars, detVars, batchVars, cycleVars>>

(* A detect_anomalies that fits the scaler on the readings it scores; -1   *)
(* stands for a scaler fitted on score data.                               *)
DetectAnomaliesCall_Refitting ==
    /\ call.seq < MaxCalls
    /\ \E batch \in ScoreBatches :
           LET r == detect_anomalies(is_trained, scaler, isolation_forest, batch)
           IN  /\ call' = [seq |-> call.seq + 1, op |-> "detect_anomalies",
                            n |-> Len(batch), batch |-> batch, raised |-> r.raised,
                            alerts |-> r.alerts,
                            again |-> (call.op = "detect_anomalies"
                                          /\ call.batch = batch)]
               /\ scaler' = IF is_trained /\ ~IsNone(isolation_forest) /\ batch # <<>>
                            THEN -1 ELSE scaler
    /\ UNCHANGED <<commonVars, detVars, batchVars, is_trained,
                   isolation_forest, train_calls, cycleVars>>

DetectAnomaliesCall ==
    /\ call.seq < MaxCalls
    /\ \E batch \in ScoreBatches :
           LET r == detect_anomalies(is_trained, scaler, isolation_forest, batch)
           IN  call' = [seq |-> call.seq + 1, op |-> "detect_anomalies",
                        n |-> Len(batch), batch |-> batch, raised |-> r.raised,
                        alerts |-> r.alerts,
                        again |-> (call.op = "detect_anomalies"
                                      /\ call.batch = batch)]
    /\ UNCHANGED <<commonVars, detVars, batchVars, objVars, cycleVars>>

ModelNext == TrainModelCall \/ DetectAnomaliesCall

SpecModel == ModelInit /\ [][ModelNext]_vars

----------------------------------------------------------------------------
(* run_detection_cycle and run_continuous (engine.py:230-290).  A step     *)
(* runs from one await to the next.  A fetch from storage is None when the *)
(* call raises, else Some(list).                                           *)
RecentTriples == {<<230, 4, 35>>, <<250, 4, 35>>}

RecentFetches ==
    {None} \cup {Some(Listed("d1", b)) : b \in SeqsUpTo(RecentTriples, MaxRecent)}

TrainingFetches == {None} \cup {Some(TrainingData(n)) : n \in TrainingSizes}

PublishOutcomes == {"ok", "lpush_raises", "publish_raises"}

SchedulerInit ==
    /\ DetectIdle
    /\ BatchIdle
    /\ CommonIdle
    /\ Constructed
    /\ call = NoCall
    /\ continuous \in BOOLEAN
    /\ redis_client \in BOOLEAN
    /\ epc = "start"
    /\ cycle = 0
    /\ recent_data = <<>>
    /\ ealerts = <<>>
    /\ pidx = 0
    /\ steps = <<>>
    /\ pushed = <<>>
    /\ channel = <<>>
    /\ attempts = <<>>

(* A scheduler whose loop ends with the first cycle.                       *)
AfterCycleEndsLoop == "exit"

(* Where the scheduler goes when a cycle is over: the sleep of             *)
(* run_continuous, or the end of a single pass.                            *)
AfterCycle == IF continuous THEN "sleep" ELSE "exit"

(* main with --once: run_detection_cycle is called directly.               *)
StartOnce ==
    /\ epc = "start"
    /\ ~continuous
    /\ epc' = "cycle"
    /\ UNCHANGED <<commonVars, detVars, batchVars, objVars, call, continuous,
                   redis_client, cycle, recent_data, ealerts, pidx, steps,
                   pushed, channel, attempts>>

(* run_continuous, engine.py:275-281: the initial training, outside any    *)
(* try block.                                                              *)
InitialTraining ==
    /\ epc = "start"
    /\ continuous
    /\ \E fetched \in TrainingFetches, outcome \in FitOutcomes :
           IF IsNone(fetched)
           THEN /\ epc' = "crashed"
                /\ steps' = <<"training_fetch_raised">>
                /\ UNCHANGED objVars
           ELSE IF Get(fetched) = <<>>
           THEN /\ epc' = "cycle"
                /\ steps' = <<"training_fetch">>
                /\ UNCHANGED objVars
           ELSE LET e == train_model(is_trained, scaler, isolation_forest,
                                     train_calls + 1, Get(fetched), outcome)
                IN  /\ is_trained' = e.is_trained
                    /\ scaler' = e.scaler
                    /\ isolation_forest' = e.isolation_forest
                    /\ train_calls' = train_calls + 1
                    /\ epc' = IF e.raised THEN "crashed" ELSE "cycle"
                    /\ steps' = <<"training_fetch", "train_model">>
    /\ UNCHANGED <<commonVars, detVars, batchVars, call, continuous,
                   redis_client, cycle, recent_data, ealerts, pidx, pushed,
                   channel, attempts>>

(* engine.py:250-260 on the engine state e: score the batch and go on to   *)
(* publish; an exception ends the cycle (engine.py:262).                   *)
ScoreAndGo(e, batch, done) ==
    LET r == detect_anomalies(e.is_trained, e.scaler, e.isolation_forest, batch)
    IN  /\ ealerts' = r.alerts
        /\ steps' = done \o <<IF r.raised THEN "detect_anomalies_raised"
                              ELSE "detect_anomalies">>
        /\ pidx' = 1
        /\ epc' = IF r.raised \/ r.alerts = <<>> THEN AfterCycle ELSE "publish"

(* A cycle that fetches training data whether or not the model is trained. *)
CycleFetch_AlwaysRetrain ==
    /\ epc = "cycle"
    /\ cycle < MaxCycles
    /\ cycle' = cycle + 1
    /\ pushed' = <<>>
    /\ channel' = <<>>
    /\ attempts' = <<>>
    /\ \E fetched \in RecentFetches :
           IF IsNone(fetched) \/ Get(fetched) = <<>>
           THEN /\ recent_data' = <<>>
                /\ ealerts' = <<>>
                /\ pidx' = 0
                /\ steps' = <<IF IsNone(fetched) THEN "fetch_raised" ELSE "fetch">>
                /\ epc' = AfterCycle
           ELSE /\ recent_data' = Get(fetched)
                /\ IF TRUE
                   THEN /\ ealerts' = <<>>
                        /\ pidx' = 0
                        /\ steps' = <<"fetch">>
                        /\ epc' = "training"
                   ELSE ScoreAndGo(Engine(is_trained, scaler, isolation_forest,
                                          FALSE), Get(fetched), <<"fetch">>)
    /\ UNCHANGED <<commonVars, detVars, batchVars, objVars, call, continuous,
                   redis_client>>

(* A cycle that checks for an untrained model before it checks for an     *)
(* empty batch.                                                            *)
CycleFetch_TrainsOnEmpty ==
    /\ epc = "cycle"
    /\ cycle < MaxCycles
    /\ cycle' = cycle + 1
    /\ pushed' = <<>>
    /\ channel' = <<>>
    /\ attempts' = <<>>
    /\ \E fetched \in RecentFetches :
           IF IsNone(fetched) \/ (Get(fetched) = <<>> /\ is_trained)
           THEN /\ recent_data' = <<>>
                /\ ealerts' = <<>>
                /\ pidx' = 0
                /\ steps' = <<IF IsNone(fetched) THEN "fetch_raised" ELSE "fetch">>
                /\ epc' = AfterCycle
           ELSE /\ recent_data' = Get(fetched)
                /\ IF ~is_trained
                   THEN /\ ealerts' = <<>>
                        /\ pidx' = 0
                        /\ steps' = <<"fetch">>
                        /\ epc' = "training"
                   ELSE ScoreAndGo(Engine(is_trained, scaler, isolation_forest,
                                          FALSE), Get(fetched), <<"fetch">>)
    /\ UNCHANGED <<commonVars, detVars, batchVars, objVars, call, continuous,
                   redis_client>>

(* A cycle that skips an untrained model instead of training it.           *)
CycleFetch_TrainsOnlyAtStartup ==
    /\ epc = "cycle"
    /\ cycle < MaxCycles
    /\ cycle' = cycle + 1
    /\ pushed' = <<>>
    /\ channel' = <<>>
    /\ attempts' = <<>>
    /\ \E fetched \in RecentFetches :
           IF IsNone(fetched) \/ Get(fetched) = <<>>
           THEN /\ recent_data' = <<>>
                /\ ealerts' = <<>>
                /\ pidx' = 0
                /\ steps' = <<IF IsNone(fetched) THEN "fetch_raised" ELSE "fetch">>
                /\ epc' = AfterCycle
           ELSE /\ recent_data' = Get(fetched)
                /\ IF ~is_trained
                   THEN /\ ealerts' = <<>>
                        /\ pidx' = 0
                        /\ steps' = <<"fetch">>
                        /\ epc' = AfterCycle
                   ELSE ScoreAndGo(Engine(is_trained, scaler, isolation_forest,
                                          FALSE), Get(fetched), <<"fetch">>)
    /\ UNCHANGED <<commonVars, detVars, batchVars, objVars, call, continuous,
                   redis_client>>

(* engine.py:232-241: a cycle starts and fetches the recent readings; when *)
(* the model is trained it goes straight on to scoring.                    *)
CycleFetch ==
    /\ epc = "cycle"
    /\ cycle < MaxCycles
    /\ cycle' = cycle + 1
    /\ pushed' = <<>>
    /\ channel' = <<>>
    /\ attempts' = <<>>
    /\ \E fetched \in RecentFetches :
           IF IsNone(fetched) \/ Get(fetched) = <<>>
           THEN /\ recent_data' = <<>>
                /\ ealerts' = <<>>
                /\ pidx' = 0
                /\ steps' = <<IF IsNone(fetched) THEN "fetch_raised" ELSE "fetch">>
                /\ epc' = AfterCycle
           ELSE /\ recent_data' = Get(fetched)
                /\ IF ~is_trained
                   THEN /\ ealerts' = <<>>
                        /\ pidx' = 0
                        /\ steps' = <<"fetch">>
                        /\ epc' = "training"
                   ELSE ScoreAndGo(Engine(is_trained, scaler, isolation_forest,
                                          FALSE), Get(fetched), <<"fetch">>)
    /\ UNCHANGED <<commonVars, detVars, batchVars, objVars, call, continuous,
                   redis_client>>

(* engine.py:242-251: the model is not trained: fetch training data, train *)
(* and score.                                                              *)
CycleTrain ==
    /\ epc = "training"
    /\ \E fetched \in TrainingFetches, outcome \in FitOutcomes :
           IF IsNone(fetched) \/ Get(fetched) = <<>>
           THEN /\ steps' = steps \o <<IF IsNone(fetched) THEN "training_fetch_raised"
                                       ELSE "training_fetch">>
                /\ epc' = AfterCycle
                /\ UNCHANGED <<objVars, ealerts, pidx>>
           ELSE LET e == train_model(is_trained, scaler, isolation_forest,
                                     train_calls + 1, Get(fetched), outcome)
                IN  /\ is_trained' = e.is_trained
                    /\ scaler' = e.scaler
                    /\ isolation_forest' = e.isolation_forest
                    /\ train_calls' = train_calls + 1
                    /\ IF e.raised
                       THEN /\ steps' = steps \o <<"training_fetch",
                                                   "train_model_raised">>
                            /\ epc' = AfterCycle
                            /\ UNCHANGED <<ealerts, pidx>>
                       ELSE ScoreAndGo(e, recent_data,
                                steps \o <<"training_fetch", "train_model">>)
    /\ UNCHANGED <<commonVars, detVars, batchVars, call, continuous,
                   redis_client, cycle, recent_data, pushed, channel,
                   attempts>>

(* A publish loop that a failing publish_alert ends: the exception reaches *)
(* the handler of the cycle and the remaining alerts are skipped.          *)
PublishAlert_AbortOnFailure ==
    /\ epc = "publish"
    /\ pidx <= Len(ealerts)
    /\ \E outcome \in PublishOutcomes :
           /\ pushed' = IF redis_client /\ outcome # "lpush_raises"
                        THEN Append(pushed, ealerts[pidx]) ELSE pushed
           /\ channel' = IF redis_client /\ outcome = "ok"
                         THEN Append(channel, ealerts[pidx]) ELSE channel
           /\ epc' = IF pidx = Len(ealerts) \/ (redis_client /\ outcome # "ok")
                     THEN AfterCycle ELSE "publish"
    /\ attempts' = Append(attempts, ealerts[pidx])
    /\ steps' = Append(steps, "publish_alert")
    /\ pidx' = pidx + 1
    /\ UNCHANGED <<commonVars, detVars, batchVars, objVars, call, continuous,
                   redis_client, cycle, recent_data, ealerts>>

(* publish_alert (engine.py:196-228) for the next alert of the cycle.      *)
PublishAlert ==
    /\ epc = "publish"
    /\ pidx <= Len(ealerts)
    /\ \E outcome \in PublishOutcomes :
           /\ pushed' = IF redis_client /\ outcome # "lpush_raises"
                        THEN Append(pushed, ealerts[pidx]) ELSE pushed
           /\ channel' = IF redis_client /\ outcome = "ok"
                         THEN Append(channel, ealerts[pidx]) ELSE channel
    /\ attempts' = Append(attempts, ealerts[pidx])
    /\ steps' = Append(steps, "publish_alert")
    /\ pidx' = pidx + 1
    /\ epc' = IF pidx = Len(ealerts) THEN AfterCycle ELSE "publish"
    /\ UNCHANGED <<commonVars, detVars, batchVars, objVars, call, continuous,
                   redis_client, cycle, recent_data, ealerts>>

(* run_continuous, engine.py:284-290: sleep, then the next cycle.          *)
Sleep ==
    /\ epc = "sleep"
    /\ epc' = "cycle"
    /\ UNCHANGED <<commonVars, detVars, batchVars, objVars, call, continuous,
                   redis_client, cycle, recent_data, ealerts, pidx, steps,
                   pushed, channel, attempts>>

SchedulerNext ==
    StartOnce \/ InitialTraining \/ CycleFetch \/ CycleTrain \/ PublishAlert \/ Sleep

SpecEngine == SchedulerInit /\ [][SchedulerNext]_vars

(* The scheduler on a running event loop: every await of the coroutine     *)
(* (a fetch, a publish, the sleep) returns or raises, so a step that can   *)
(* be taken is taken.                                                      *)
SpecEngineFair == SpecEngine /\ WF_vars(SchedulerNext)

(* External cancellation of run_continuous.  asyncio raises CancelledError *)
(* inside the coroutine at the await it is suspended in or reaches next:   *)
(* the initial training fetch, the fetch of recent readings, the training  *)
(* fetch, the lpush of the next alert, or the sleep.  CancelledError is    *)
(* not an Exception, so none of the handlers (engine.py:226, 262, 286)     *)
(* catches it and the loop ends there.                                     *)
Cancel ==
    /\ continuous
    /\ epc \in {"start", "cycle", "training", "publish", "sleep"}
    /\ epc' = "cancelled"
    /\ steps' = Append(steps, "cancelled")
    /\ UNCHANGED <<commonVars, detVars, batchVars, objVars, call, continuous,
                   redis_client, cycle, recent_data, ealerts, pidx, pushed,
                   channel, attempts>>

CancelNext == SchedulerNext \/ Cancel

SpecCancel == SchedulerInit /\ [][CancelNext]_vars

----------------------------------------------------------------------------
(* TelemetryHandler.validate (src/common/telemetry.py): one call on an     *)
(* arbitrary reading.                                                      *)
VOLTAGE_MIN == 200
VOLTAGE_MAX == 250
CURRENT_MIN == 0
CURRENT_MAX == 10
TEMPERATURE_MIN == 0
TEMPERATURE_MAX == 80

(* The error message f"<Metric> {value}<unit> out of range [{lo}, {hi}]".  *)
OutOfRange(metric, value, unit, lo, hi) ==
    [metric |-> metric, value |-> value, unit |-> unit, range |-> <<lo, hi>>]

Validation(ok, message) == [is_valid |-> ok, error |-> message]

(* A validate whose bounds are exclusive.                                  *)
validate_ExclusiveBounds(data) ==
    IF ~(VOLTAGE_MIN < data.voltage /\ data.voltage < VOLTAGE_MAX)
    THEN Validation(FALSE, Some(OutOfRange("Voltage", data.voltage, "V",
                                           VOLTAGE_MIN, VOLTAGE_MAX)))
    ELSE IF ~(CURRENT_MIN < data.current /\ data.current < CURRENT_MAX)
    THEN Validation(FALSE, Some(OutOfRange("Current", data.current, "A",
                                           CURRENT_MIN, CURRENT_MAX)))
    ELSE IF ~(TEMPERATURE_MIN < data.temperature
                 /\ data.temperature < TEMPERATURE_MAX)
    THEN Validation(FALSE, Some(OutOfRange("Temperature", data.temperature, "C",
                                           TEMPERATURE_MIN, TEMPERATURE_MAX)))
    ELSE Validation(TRUE, None)

(* validate (telemetry.py:21-36): the tuple (is_valid, error_message).     *)
validate(data) ==
    IF ~(VOLTAGE_MIN <= data.voltage /\ data.voltage <= VOLTAGE_MAX)
    THEN Validation(FALSE, Some(OutOfRange("Voltage", data.voltage, "V",
                                           VOLTAGE_MIN, VOLTAGE_MAX)))
    ELSE IF ~(CURRENT_MIN <= data.current /\ data.current <= CURRENT_MAX)
    THEN Validation(FALSE, Some(OutOfRange("Current", data.current, "A",
                                           CURRENT_MIN, CURRENT_MAX)))
    ELSE IF ~(TEMPERATURE_MIN <= data.temperature
                 /\ data.temperature <= TEMPERATURE_MAX)
    THEN Validation(FALSE, Some(OutOfRange("Temperature", data.temperature, "C",
                                           TEMPERATURE_MIN, TEMPERATURE_MAX)))
    ELSE Validation(TRUE, None)

TelemetryVoltages == {199, 200, 230, 250, 251, 300}
TelemetryCurrents == {-1, 0, 4, 10, 11}
TelemetryTemperatures == {-1, 0, 35, 80, 81}

TelemetryReadings ==
    {SensorData("d1", 1, v, c, t) :
        v \in TelemetryVoltages, c \in TelemetryCurrents,
        t \in TelemetryTemperatures}

ValidateInit ==
    /\ DetectIdle
    /\ BatchIdle
    /\ EngineIdle
    /\ RoundTripIdle
    /\ IngestIdle
    /\ telemetry \in TelemetryReadings
    /\ validation = None
    /\ vpc = "input"

Validate ==
    /\ vpc = "input"
    /\ validation' = Some(validate(telemetry))
    /\ vpc' = "returned"
    /\ UNCHANGED <<detVars, batchVars, engVars, rtVars, ingVars, telemetry>>

ValidateNext == Validate

SpecValidate == ValidateInit /\ [][ValidateNext]_vars

----------------------------------------------------------------------------
(* SensorData.to_dict and SensorData.from_dict (src/common/models.py).     *)
(* A timestamp is a datetime or a str, the latter a sequence of            *)
(* characters; a number is an int or a float.  UTC offsets are whole       *)
(* minutes.                                                                *)
Datetime(y, mo, d, h, mi, sec, us, tz) ==
    [type |-> "datetime", year |-> y, month |-> mo, day |-> d, hour |-> h,
     minute |-> mi, second |-> sec, microsecond |-> us, tzinfo |-> tz]

Str(chars) == [type |-> "str", text |-> chars]

Integer(n) == [type |-> "int", value |-> n]
Float(n) == [type |-> "float", value |-> n]

DigitChars == <<"0", "1", "2", "3", "4", "5", "6", "7", "8", "9">>

(* "%0<w>d" % n                                                            *)
Digits(n, w) == [i \in 1..w |-> DigitChars[((n \div (10 ^ (w - i))) % 10) + 1]]

DigitValue(c) == CHOOSE d \in 0..9 : DigitChars[d + 1] = c

RECURSIVE Number(_)
(* int(text) for a text of decimal digits                                  *)
Number(text) ==
    IF text = <<>> THEN 0
    ELSE 10 * Number(SubSeq(text, 1, Len(text) - 1)) + DigitValue(text[Len(text)])

(* The UTC offset as isoformat writes it: nothing for a naive datetime,    *)
(* else sign, hours and minutes of the absolute offset.                    *)
OffsetText(tz) ==
    IF IsNone(tz) THEN <<>>
    ELSE <<IF Get(tz) < 0 THEN "-" ELSE "+">>
             \o Digits(Abs(Get(tz)) \div 60, 2) \o <<":">>
             \o Digits(Abs(Get(tz)) % 60, 2)

(* An isoformat that leaves the microseconds out.                          *)
isoformat_Seconds(dt) ==
    Digits(dt.year, 4) \o <<"-">> \o Digits(dt.month, 2) \o <<"-">>
        \o Digits(dt.day, 2) \o <<"T">> \o Digits(dt.hour, 2) \o <<":">>
        \o Digits(dt.minute, 2) \o <<":">> \o Digits(dt.second, 2)
        \o OffsetText(dt.tzinfo)

(* datetime.isoformat(): YYYY-MM-DDTHH:MM:SS[.ffffff][+HH:MM], the         *)
(* fraction written only when the microseconds are not 0.                  *)
isoformat(dt) ==
    Digits(dt.year, 4) \o <<"-">> \o Digits(dt.month, 2) \o <<"-">>
        \o Digits(dt.day, 2) \o <<"T">> \o Digits(dt.hour, 2) \o <<":">>
        \o Digits(dt.minute, 2) \o <<":">> \o Digits(dt.second, 2)
        \o (IF dt.microsecond # 0 THEN <<".">> \o Digits(dt.microsecond, 6)
            ELSE <<>>)
        \o OffsetText(dt.tzinfo)

RECURSIVE replace_Z(_)
(* timestamp.replace('Z', '+00:00')                                        *)
replace_Z(text) ==
    IF text = <<>> THEN <<>>
    ELSE (IF Head(text) = "Z" THEN <<"+", "0", "0", ":", "0", "0">>
          ELSE <<Head(text)>>) \o replace_Z(Tail(text))

(* datetime.fromisoformat on a text of the form isoformat writes.          *)
fromisoformat(text) ==
    LET time == SubSeq(text, 12, Len(text))
        rest == SubSeq(time, 9, Len(time))
        fraction == rest # <<>> /\ rest[1] = "."
        offset == IF fraction THEN SubSeq(rest, 8, Len(rest)) ELSE rest
        minutes == 60 * Number(SubSeq(offset, 2, 3)) + Number(SubSeq(offset, 5, 6))
    IN  Datetime(Number(SubSeq(text, 1, 4)), Number(SubSeq(text, 6, 7)),
                 Number(SubSeq(text, 9, 10)), Number(SubSeq(time, 1, 2)),
                 Number(SubSeq(time, 4, 5)), Number(SubSeq(time, 7, 8)),
                 IF fraction THEN Number(SubSeq(rest, 2, 7)) ELSE 0,
                 IF offset = <<>> THEN None
                 ELSE Some(IF offset[1] = "-" THEN 0 - minutes ELSE minutes))

(* float(x)                                                                *)
float(x) == Float(x.value)

to_dict(d) ==
    [device_id |-> d.device_id,
     timestamp |-> IF d.timestamp.type = "datetime"
                   THEN Str(isoformat(d.timestamp)) ELSE d.timestamp,
     voltage |-> d.voltage, current |-> d.current, temperature |-> d.temperature]

from_dict(data) ==
    LET timestamp == IF data.timestamp.type = "str"
                     THEN fromisoformat(replace_Z(data.timestamp.text))
                     ELSE data.timestamp
    IN  SensorData(data.device_id, timestamp, float(data.voltage),
                   float(data.current), float(data.temperature))

Years == {987, 2026}
Months == {1, 12}
Days == {9, 31}
Hours == {0, 23}
Microseconds == {0, 1, 120000, 999999}
Offsets == {None, Some(0), Some(330), Some(-90)}

Datetimes ==
    {Datetime(y, mo, d, h, 5, 59, us, tz) :
        y \in Years, mo \in Months, d \in Days, h \in Hours,
        us \in Microseconds, tz \in Offsets}

(* Timestamps that are already text, one of them ending in Z.              *)
TextTimestamps ==
    {Str(isoformat(Datetime(2026, 1, 9, 23, 5, 59, us, Some(0)))) :
        us \in Microseconds}
        \cup {Str(isoformat(Datetime(2026, 1, 9, 23, 5, 59, 0, None)) \o <<"Z">>)}

Voltages == {Integer(230), Float(230), Float(251)}

Convertibles ==
    {SensorData(dev, ts, v, Float(4), Integer(35)) :
        dev \in Devices, ts \in Datetimes \cup TextTimestamps, v \in Voltages}

RoundTripInit ==
    /\ DetectIdle
    /\ BatchIdle
    /\ EngineIdle
    /\ ValidateIdle
    /\ IngestIdle
    /\ original \in {Some(d) : d \in Convertibles}
    /\ data_dict = None
    /\ restored = None
    /\ rpc = "start"

ToDict ==
    /\ rpc = "start"
    /\ data_dict' = Some(to_dict(Get(original)))
    /\ rpc' = "dict"
    /\ UNCHANGED <<detVars, batchVars, engVars, valVars, ingVars, original,
                   restored>>

FromDict ==
    /\ rpc = "dict"
    /\ restored' = Some(from_dict(Get(data_dict)))
    /\ rpc' = "done"
    /\ UNCHANGED <<detVars, batchVars, engVars, valVars, ingVars, original,
                   data_dict>>

RoundTripNext == ToDict \/ FromDict

SpecRoundTrip == RoundTripInit /\ [][RoundTripNext]_vars

----------------------------------------------------------------------------
(* The ingestion service (src/ingestion_service/main.py): MQTT messages    *)
(* pass through process_mqtt_message into state.message_queue, and         *)
(* consume_queue moves them in batches to Database.insert_batch.  A step   *)
(* of consume_queue runs from one await to the next.                       *)
batch_size == 100   \* batch_size = 100 in consume_queue

MaxArrivals == 2    \* message arrivals (single or burst) in one behaviour

(* The <<voltage, current, temperature>> of the messages received.         *)
IngestTriples == {<<230, 4, 35>>, <<250, 10, 80>>, <<251, 4, 35>>, <<230, 4, -1>>}

(* Sizes of a burst of messages that arrives between two steps of the      *)
(* consumer.                                                               *)
BurstSizes == {batch_size - 1, batch_size, batch_size + 1}

Received == SumSeq(arrived)

(* The messages number Received + 1 .. Received + n, all with the same     *)
(* measurements; the timestamp tells the messages apart.                   *)
Messages(n, triple) ==
    [i \in 1..n |->
        SensorData("d1", Received + i, triple[1], triple[2], triple[3])]

IngestInit ==
    /\ DetectIdle
    /\ BatchIdle
    /\ EngineIdle
    /\ ValidateIdle
    /\ RoundTripIdle
    /\ arrived = <<>>
    /\ message_queue = <<>>
    /\ pending_batch = <<>>
    /\ inserts = <<>>
    /\ ipc = "get"

(* process_mqtt_message that queues the reading before looking at the      *)
(* verdict of validate.                                                    *)
process_mqtt_message_QueueFirst(queue, data) == Append(queue, data)

(* process_mqtt_message (main.py:132-146) on the queue: the queue after    *)
(* the call.                                                               *)
process_mqtt_message(queue, data) ==
    IF ~validate(data).is_valid THEN queue ELSE Append(queue, data)

(* process_mqtt_message for each message of a run, in order: the queue     *)
(* gains the messages that a call puts on it.                              *)
ProcessAll(queue, msgs) ==
    queue \o SelectSeq(msgs, LAMBDA m : process_mqtt_message(<<>>, m) = <<m>>)

(* One message arrives, or a burst of messages arrives while the consumer  *)
(* is suspended in an await (one burst at most).                           *)
ProcessMessages ==
    /\ Len(arrived) < MaxArrivals
    /\ \E n \in {1} \cup BurstSizes, triple \in IngestTriples :
           /\ n > 1 => \A k \in 1..Len(arrived) : arrived[k] = 1
           /\ arrived' = Append(arrived, n)
           /\ message_queue' = ProcessAll(message_queue, Messages(n, triple))
    /\ UNCHANGED <<detVars, batchVars, engVars, valVars, rtVars, pending_batch,
                   inserts, ipc>>

(* main.py:157-165: wait for a message (or time out on an empty queue),    *)
(* append it, and decide whether the batch is to be inserted now.          *)
ConsumeGet ==
    /\ ipc = "get"
    /\ LET got == message_queue # <<>>
           batch1 == IF got THEN Append(pending_batch, Head(message_queue))
                     ELSE pending_batch
           queue1 == IF got THEN Tail(message_queue) ELSE message_queue
       IN  /\ pending_batch' = batch1
           /\ message_queue' = queue1
           /\ ipc' = IF (Len(batch1) >= batch_size
                            \/ (batch1 # <<>> /\ queue1 = <<>>))
                        /\ batch1 # <<>>
                     THEN "insert" ELSE "get"
    /\ UNCHANGED <<detVars, batchVars, engVars, valVars, rtVars, arrived,
                   inserts>>

(* An insert that keeps the batch for another attempt when it failed.      *)
ConsumeInsert_RetryOnFailure ==
    /\ ipc = "insert"
    /\ \E ok \in BOOLEAN :
           /\ inserts' = Append(inserts, [batch |-> pending_batch, ok |-> ok])
           /\ pending_batch' = IF ok THEN <<>> ELSE pending_batch
    /\ ipc' = "get"
    /\ UNCHANGED <<detVars, batchVars, engVars, valVars, rtVars, arrived,
                   message_queue>>

(* main.py:166-179: await insert_batch(batch), which returns or raises,    *)
(* and clear the batch in the finally block.                               *)
ConsumeInsert ==
    /\ ipc = "insert"
    /\ \E ok \in BOOLEAN :
           inserts' = Append(inserts, [batch |-> pending_batch, ok |-> ok])
    /\ pending_batch' = <<>>
    /\ ipc' = "get"
    /\ UNCHANGED <<detVars, batchVars, engVars, valVars, rtVars, arrived,
                   message_queue>>

IngestNext == ProcessMessages \/ ConsumeGet \/ ConsumeInsert

SpecIngest == IngestInit /\ [][IngestNext]_vars

----------------------------------------------------------------------------
(* The three entry points that turn readings into alerts, side by side: a  *)
(* behaviour is one detect_anomaly call, one detect_anomalies_batch call,  *)
(* or a series of direct calls on the engine object.                       *)
AlertsInit == DetectInit \/ BatchInit \/ ModelInit

(* The direct calls belong to the behaviours that started in ModelInit.    *)
DirectCall == dpc = "idle" /\ bpc = "idle" /\ epc = "idle" /\ ModelNext

AlertsNext == DetectNext \/ BatchNext \/ DirectCall

SpecAlerts == AlertsInit /\ [][AlertsNext]_vars

(* Every use of one AnomalyDetectionEngine: direct train_model and         *)
(* detect_anomalies calls, or the detection cycles of the scheduler.       *)
LifecycleInit == ModelInit \/ SchedulerInit

LifecycleNext == DirectCall \/ SchedulerNext

SpecLifecycle == LifecycleInit /\ [][LifecycleNext]_vars

----------------------------------------------------------------------------
(* Properties of the threshold detector (SpecDetect, SpecBatch).           *)

Returned == dpc = "returned"

(* The history values of a metric as the claims speak of them: the values  *)
(* of the history passed in, none when no history was passed.              *)
HistoryValues(metric) ==
    IF historical_data = None THEN <<>>
    ELSE [i \in 1..Len(historical_data[1]) |-> historical_data[1][i][metric]]

(* |value - mean| / stdev >= k for the baseline the claims describe: mean  *)
(* and sample stdev of the history, the nominal std-dev with one point,    *)
(* the nominal constants with none.  The variance is taken by the          *)
(* sum-of-squares identity  n*(n-1)*var = n*sum(x^2) - sum(x)^2;  a zero   *)
(* stdev counts as a deviation below every k.                              *)
DeviationGE(k, value, xs, nominal, std) ==
    LET n == Len(xs)
        S == SumSeq(xs)
        q == n * SumSeq([i \in 1..n |-> xs[i] * xs[i]]) - S * S
    IN  IF n = 0 THEN Abs(value - nominal) >= k * std
        ELSE IF n = 1 THEN Abs(value - xs[1]) >= k * std
        ELSE q > 0 /\ (n - 1) * (n * value - S) * (n * value - S) >= k * k * n * q

VoltageDevGE(k) ==
    DeviationGE(k, sensor_data.voltage, HistoryValues("voltage"), 230, 5)
CurrentDevGE(k) ==
    DeviationGE(k, sensor_data.current, HistoryValues("current"), 4, 1)
TemperatureDevGE(k) ==
    DeviationGE(k, sensor_data.temperature, HistoryValues("temperature"), 35, 5)

VoltageInBounds == sensor_data.voltage >= 200 /\ sensor_data.voltage <= 250
TemperatureInBounds == sensor_data.temperature <= 70

(* The alerts raised for one metric by the call, and their severities.     *)
RaisedFor(metric) == SelectSeq(raised, LAMBDA a : a.metric = metric)
SeverityFor(metric) == {RaisedFor(metric)[i].severity : i \in 1..Len(RaisedFor(metric))}

Rank(sev) == CASE sev = "high" -> 3 [] sev = "medium" -> 2 [] sev = "low" -> 1
                  [] OTHER -> 0
MetricPos(m) == CASE m = "voltage" -> 1 [] m = "current" -> 2 [] OTHER -> 3

(* C1: a reading whose voltage is below 200 or above 250 yields, for every *)
(* history and every current and temperature, an alert with metric         *)
(* 'voltage', severity 'high' and expected_range (200, 250).               *)
C1_AbsoluteVoltageBound ==
    (Returned /\ (sensor_data.voltage < 200 \/ sensor_data.voltage > 250))
        => /\ result # None
           /\ result[1].metric = "voltage"
           /\ result[1].severity = "high"
           /\ result[1].expected_range = <<200, 250>>
           /\ result[1].value = sensor_data.voltage

(* C1 witness: an out-of-range voltage evaluated against a non-empty       *)
(* history while another metric raised a high alert as well.               *)
C1_Witness ==
    /\ Returned
    /\ sensor_data.voltage > 250
    /\ historical_data # None /\ historical_data[1] # <<>>
    /\ \E i \in 1..Len(raised) :
           raised[i].metric # "voltage" /\ raised[i].severity = "high"
    /\ result # None /\ result[1].metric = "voltage"

(* C4: detect_anomaly returns, among the alerts raised by the voltage,     *)
(* current and temperature checks, one of maximal severity; among several  *)
(* of maximal severity the first in the order voltage, current,            *)
(* temperature; and None exactly when no check raised an alert.            *)
C4_HighestSeverityFirstWins ==
    Returned =>
        /\ (result = None) <=>
               /\ _check_voltage(sensor_data, historical_data) = None
               /\ _check_current(sensor_data, historical_data) = None
               /\ _check_temperature(sensor_data, historical_data) = None
        /\ \A i, j \in 1..Len(raised) :
               i < j => MetricPos(raised[i].metric) < MetricPos(raised[j].metric)
        /\ result # None =>
               \E i \in 1..Len(raised) :
                   /\ result[1] = raised[i]
                   /\ \A j \in 1..Len(raised) :
                          /\ Rank(raised[j].severity) <= Rank(raised[i].severity)
                          /\ Rank(raised[j].severity) = Rank(raised[i].severity)
                                 => MetricPos(raised[i].metric)
                                        <= MetricPos(raised[j].metric)

(* C4 witness: two alerts share the maximal severity and a third, lower    *)
(* one was raised before the one returned.                                 *)
C4_Witness ==
    /\ Returned
    /\ Len(raised) = 3
    /\ raised[1].severity = "medium"
    /\ raised[2].severity = "high"
    /\ raised[3].severity = "high"
    /\ result = Some(raised[2])

(* C5 as stated: for each of the three metrics, when the absolute check    *)
(* passes and 3.0 <= deviation < 4.0, the alert of that metric is          *)
(* 'medium'.                                                               *)
C5_MediumBandAllMetrics ==
    Returned =>
        /\ (VoltageInBounds /\ VoltageDevGE(3) /\ ~VoltageDevGE(4))
               => SeverityFor("voltage") = {"medium"}
        /\ (CurrentDevGE(3) /\ ~CurrentDevGE(4))
               => SeverityFor("current") = {"medium"}
        /\ (TemperatureInBounds /\ TemperatureDevGE(3) /\ ~TemperatureDevGE(4))
               => SeverityFor("temperature") = {"medium"}

(* C5 amended: the medium band holds for voltage and current, and for      *)
(* temperature when the raw temperature is at most 60; a temperature above *)
(* 60 (and at most 70) with 3.0 <= deviation < 4.0 is 'high'.              *)
C5_MediumBand ==
    Returned =>
        /\ (VoltageInBounds /\ VoltageDevGE(3) /\ ~VoltageDevGE(4))
               => SeverityFor("voltage") = {"medium"}
        /\ (CurrentDevGE(3) /\ ~CurrentDevGE(4))
               => SeverityFor("current") = {"medium"}
        /\ (TemperatureInBounds /\ TemperatureDevGE(3) /\ ~TemperatureDevGE(4))
               => SeverityFor("temperature") =
                      IF sensor_data.temperature <= 60 THEN {"medium"} ELSE {"high"}

(* C5 witness: all three metrics in the medium band against a history of   *)
(* two points, the temperature at most 60.                                 *)
C5_Witness ==
    /\ Returned
    /\ historical_data # None /\ Len(historical_data[1]) >= 2
    /\ VoltageInBounds /\ VoltageDevGE(3) /\ ~VoltageDevGE(4)
    /\ CurrentDevGE(3) /\ ~CurrentDevGE(4)
    /\ TemperatureDevGE(3) /\ ~TemperatureDevGE(4)
    /\ sensor_data.temperature <= 60
    /\ Len(raised) = 3
    /\ \A i \in 1..3 : raised[i].severity = "medium"

(* C6: for each metric whose absolute check passes a deviation of at least *)
(* 4.0 gives 'high'; for temperature a raw value above 60 with a deviation *)
(* of at least 3.0 gives 'high' too; a deviation below 3.0 raises no alert *)
(* for that metric.                                                        *)
C6_HighBand ==
    Returned =>
        /\ (VoltageInBounds /\ VoltageDevGE(4)) => SeverityFor("voltage") = {"high"}
        /\ CurrentDevGE(4) => SeverityFor("current") = {"high"}
        /\ (TemperatureInBounds /\ TemperatureDevGE(4))
               => SeverityFor("temperature") = {"high"}
        /\ (TemperatureInBounds /\ sensor_data.temperature > 60
                /\ TemperatureDevGE(3))
               => SeverityFor("temperature") = {"high"}
        /\ (VoltageInBounds /\ ~VoltageDevGE(3)) => RaisedFor("voltage") = <<>>
        /\ ~CurrentDevGE(3) => RaisedFor("current") = <<>>
        /\ (TemperatureInBounds /\ ~TemperatureDevGE(3))
               => RaisedFor("temperature") = <<>>

(* C6 witness: a temperature above 60 within the absolute bound, deviating *)
(* at least 3.0 but less than 4.0 from its history, reported 'high'.       *)
C6_Witness ==
    /\ Returned
    /\ sensor_data.temperature > 60 /\ TemperatureInBounds
    /\ TemperatureDevGE(3) /\ ~TemperatureDevGE(4)
    /\ SeverityFor("temperature") = {"high"}
    /\ VoltageInBounds /\ VoltageDevGE(4) /\ SeverityFor("voltage") = {"high"}

(* C7: detect_anomaly returns None whenever the voltage is within          *)
(* [200, 250], the temperature is at most 70 and each metric deviates less *)
(* than 3.0 from its baseline.                                             *)
C7_NoAlertForNormalReadings ==
    (/\ Returned
     /\ VoltageInBounds
     /\ TemperatureInBounds
     /\ ~VoltageDevGE(3) /\ ~CurrentDevGE(3) /\ ~TemperatureDevGE(3))
        => result = None

(* C7 witness: a reading far from the nominal constants but normal for its *)
(* history returns None.                                                   *)
C7_Witness ==
    /\ Returned
    /\ historical_data # None /\ Len(historical_data[1]) = 1
    /\ sensor_data.temperature = 50
    /\ sensor_data.voltage = 230
    /\ VoltageInBounds /\ TemperatureInBounds
    /\ ~VoltageDevGE(3) /\ ~CurrentDevGE(3) /\ ~TemperatureDevGE(3)
    /\ result = None

(* The history passed in has two or more readings, all with the same       *)
(* value of the metric.                                                    *)
ConstantHistory(metric) ==
    LET xs == HistoryValues(metric)
    IN  Len(xs) >= 2 /\ \A i \in 1..Len(xs) : xs[i] = xs[1]

(* C15: when the history of a metric has two or more readings that all     *)
(* carry the same value, the statistical check of that metric raises no    *)
(* alert whatever the value of the new reading: none for current, and none *)
(* for voltage and temperature unless the absolute bound is violated.      *)
C15_ZeroStdDevNoAlert ==
    Returned =>
        /\ (ConstantHistory("voltage") /\ VoltageInBounds)
               => RaisedFor("voltage") = <<>>
        /\ ConstantHistory("current") => RaisedFor("current") = <<>>
        /\ (ConstantHistory("temperature") /\ TemperatureInBounds)
               => RaisedFor("temperature") = <<>>

(* C15 witness: two stored readings with the same current; a reading whose *)
(* current is far from it raised no current alert, while its voltage,      *)
(* within the bounds and with a varying history, raised one.               *)
C15_Witness ==
    /\ Returned
    /\ ConstantHistory("current")
    /\ sensor_data.current = 8
    /\ HistoryValues("current")[1] = 4
    /\ RaisedFor("current") = <<>>
    /\ ~ConstantHistory("voltage")
    /\ VoltageInBounds
    /\ RaisedFor("voltage") # <<>>

----------------------------------------------------------------------------
(* Properties of the engine object (SpecModel).                            *)

(* The metric the tie precedence voltage > current > temperature selects.  *)
PrecedenceMetric(data) ==
    LET vd == Abs(data.voltage - 230)
        cd == Abs(data.current - 4)
        td == Abs(data.temperature - 35)
    IN  IF vd >= cd /\ vd >= td THEN "voltage"
        ELSE IF cd >= td THEN "current"
        ELSE "temperature"

(* C3: every reading flagged as an outlier is attributed to the metric     *)
(* with the largest of |voltage-230|, |current-4|, |temperature-35|, ties  *)
(* resolved with the precedence voltage > current > temperature.           *)
C3_AttributionTiePrecedence ==
    call.op = "detect_anomalies" =>
        \A i \in 1..Len(call.alerts) :
            call.alerts[i].metric
                = PrecedenceMetric(call.batch[call.alerts[i].timestamp])

(* C9: whenever is_trained is true, the scaler and the isolation forest    *)
(* held are both fitted and were fitted by the same train_model call.      *)
C9_AtomicModelSwap ==
    is_trained =>
        /\ scaler # 0
        /\ isolation_forest # None
        /\ isolation_forest[1].fitted
        /\ isolation_forest[1].made = scaler

(* C10: a train_model call with fewer than 10 readings returns without     *)
(* raising and leaves is_trained, the scaler and the isolation forest as   *)
(* they were.                                                              *)
C10_InsufficientDataLeavesDetector ==
    [][(call'.seq # call.seq /\ call'.op = "train_model" /\ call'.n < 10)
          => /\ ~call'.raised
             /\ is_trained' = is_trained
             /\ scaler' = scaler
             /\ isolation_forest' = isolation_forest]_vars

(* C10 witness: a Trained detector was handed 9 readings and the call      *)
(* returned.                                                               *)
C10_Witness ==
    /\ call.op = "train_model"
    /\ call.n = 9
    /\ ~call.raised
    /\ is_trained
    /\ train_calls = 2

(* The last direct call was a detect_anomalies that got past the gate and  *)
(* returned.                                                               *)
Scored ==
    /\ call.op = "detect_anomalies"
    /\ ~call.raised
    /\ call.batch # <<>>
    /\ is_trained
    /\ isolation_forest # None

(* The alerts the last call returned for the i-th reading of its batch.    *)
AlertsFor(i) ==
    SelectSeq(call.alerts, LAMBDA a : a.device_id = call.batch[i].device_id
                                         /\ a.timestamp = call.batch[i].timestamp)

(* The severity tiers of the anomaly score, in hundredths.                 *)
Tier(score) ==
    CASE score < -50 -> "high"
      [] score >= -50 /\ score < -30 -> "medium"
      [] score >= -30 -> "low"

(* C16: every reading of the batch that the model labels an outlier gets   *)
(* an alert whose severity is 'high' for a score below -0.5, 'medium' for  *)
(* a score below -0.3 and not below -0.5, 'low' otherwise; a reading       *)
(* labelled an inlier gets no alert whatever its score.                    *)
C16_OutlierSeverityTiers ==
    Scored =>
        \A i \in 1..Len(call.batch) :
            LET features == prepare_features(call.batch[i])
                model == isolation_forest[1].model
            IN  IF predict(model, features) = -1
                THEN /\ Len(AlertsFor(i)) = 1
                     /\ AlertsFor(i)[1].severity
                            = Tier(score_samples(model, features))
                ELSE AlertsFor(i) = <<>>

(* C16 witness: a batch of two outliers, the first with a score between    *)
(* -0.5 and -0.3 reported 'medium', the second with a score of exactly     *)
(* -0.3 reported 'low'.                                                    *)
C16_Witness ==
    /\ Scored
    /\ Len(call.batch) = 2
    /\ Len(call.alerts) = 2
    /\ score_samples(isolation_forest[1].model, prepare_features(call.batch[2])) = -30
    /\ call.alerts[1].severity = "medium"
    /\ call.alerts[2].severity = "low"

(* C16 witness of the inlier case: a reading with a score below -0.5 that  *)
(* the model labels an inlier got no alert.                                *)
C16_InlierWitness ==
    /\ Scored
    /\ Len(call.batch) = 1
    /\ score_samples(isolation_forest[1].model, prepare_features(call.batch[1])) < -50
    /\ call.alerts = <<>>

(* C17: detect_anomalies leaves is_trained, the scaler and the isolation   *)
(* forest as they were, and a detect_anomalies call handed the batch of    *)
(* the detect_anomalies call just before it, with no train_model call in   *)
(* between, returns the same alerts.                                       *)
C17_ScoringReadOnlyRepeatable ==
    [][(call'.seq # call.seq /\ call'.op = "detect_anomalies")
          => /\ is_trained' = is_trained
             /\ scaler' = scaler
             /\ isolation_forest' = isolation_forest
             /\ (call.op = "detect_anomalies" /\ call'.batch = call.batch)
                    => (call'.alerts = call.alerts /\ call'.raised = call.raised)]_vars

(* C17 witness: a Trained detector scored the same non-empty batch twice   *)
(* in a row and returned alerts.                                           *)
C17_Witness ==
    /\ Scored
    /\ call.again
    /\ call.alerts # <<>>
    /\ isolation_forest[1].made = scaler

----------------------------------------------------------------------------
(* Properties of the batch driver (SpecBatch).                             *)

(* C2: in detect_anomalies_batch the k-th reading of a device is evaluated *)
(* against the seed history plus all k-1 earlier readings of that device,  *)
(* each appended whether or not it raised an alert.                        *)
C2_SequentialContext ==
    (/\ bpc = "eval"
     /\ di <= Len(device_data)
     /\ database
     /\ store[groups[gi]] # None)
        => historical =
               Some(LastN(store[groups[gi]][1] \o SubSeq(device_data, 1, di - 1), 100))

----------------------------------------------------------------------------
(* Properties of the scheduler (SpecEngine).                               *)

CycleOver == epc \in {"sleep", "exit"}

(* C8: before any successful train_model, detect_anomalies returns an      *)
(* empty list and never raises, for every input; every alert the scheduler *)
(* holds or has published was produced with is_trained true; a cycle that  *)
(* ends with the detector Untrained has published no alert.                *)
C8_TrainingGate ==
    /\ ~is_trained =>
           \A batch \in ScoreBatches :
               detect_anomalies(is_trained, scaler, isolation_forest, batch)
                   = [raised |-> FALSE, alerts |-> <<>>]
    /\ (ealerts # <<>> \/ pushed # <<>> \/ channel # <<>>) => is_trained
    /\ (CycleOver /\ ~is_trained) =>
           /\ pushed = <<>>
           /\ channel = <<>>
           /\ \A i \in 1..Len(steps) : steps[i] # "publish_alert"

(* C8 witness: a cycle scored a non-empty batch while Untrained -- the     *)
(* training was skipped for want of readings -- with a forest left over    *)
(* from an earlier fit that raised, and ended.                             *)
C8_Witness ==
    /\ CycleOver
    /\ ~is_trained
    /\ isolation_forest # None
    /\ recent_data # <<>>
    /\ steps = <<"fetch", "training_fetch", "train_model", "detect_anomalies">>
    /\ ealerts = <<>>

(* A fetch from storage raised during what `steps` records.                *)
StorageFetchRaised ==
    \E i \in 1..Len(steps) : steps[i] \in {"fetch_raised", "training_fetch_raised"}

(* C11: in continuous mode no exception raised by a storage fetch leaves   *)
(* run_continuous: after a failing fetch -- the initial training-data      *)
(* fetch included -- the scheduler is still running and goes on to the     *)
(* detection cycles.                                                       *)
C11_StorageFailuresContained ==
    (continuous /\ StorageFetchRaised) => epc \in {"cycle", "sleep"}

(* The current cycle began with a fetch of recent readings that raised.    *)
FetchRaisedCycle == Len(steps) >= 1 /\ steps[1] = "fetch_raised"

(* C12: when the fetch of recent readings at the start of                  *)
(* run_detection_cycle raises, the cycle ends there: nothing is trained,   *)
(* scored or published, the exception does not leave run_detection_cycle,  *)
(* and in continuous mode the loop sleeps and then starts the next cycle.  *)
C12_FetchFailureAbortsCycle ==
    /\ [](FetchRaisedCycle =>
              /\ steps = <<"fetch_raised">>
              /\ ealerts = <<>>
              /\ attempts = <<>>
              /\ pushed = <<>>
              /\ channel = <<>>
              /\ epc \in (IF continuous THEN {"sleep", "cycle"} ELSE {"exit"}))
    /\ [][(cycle' # cycle /\ steps' = <<"fetch_raised">>)
              => /\ UNCHANGED objVars
                 /\ epc' = IF continuous THEN "sleep" ELSE "exit"]_vars
    /\ [][epc = "sleep"
              => /\ epc' = "cycle"
                 /\ UNCHANGED <<objVars, steps, pushed, channel, attempts>>]_vars
    /\ [][epc = "cycle" => cycle' = cycle + 1]_vars

(* C12 witness: in continuous mode, with a Trained detector, the fetch of  *)
(* the first cycle raised, the loop slept and is about to start the next   *)
(* cycle.                                                                  *)
C12_Witness ==
    /\ continuous
    /\ is_trained
    /\ cycle = 1
    /\ steps = <<"fetch_raised">>
    /\ epc = "cycle"

(* The scoring of the current cycle returned its alerts.                   *)
ScoringReturned == \E i \in 1..Len(steps) : steps[i] = "detect_anomalies"

(* C13: within one detection cycle publish_alert is called for every alert *)
(* that scoring returned, in the order of the alerts; a failing publish is *)
(* caught inside publish_alert: the next step is the attempt for the next  *)
(* alert, or the regular end of the cycle after the last one.              *)
C13_BestEffortPublishing ==
    /\ [](Len(attempts) <= Len(ealerts)
              /\ attempts = SubSeq(ealerts, 1, Len(attempts)))
    /\ []((CycleOver /\ ScoringReturned) => attempts = ealerts)
    /\ [](epc = "publish" => Len(attempts) < Len(ealerts))
    /\ [][Len(attempts') > Len(attempts)
              => /\ attempts' = Append(attempts, ealerts[Len(attempts) + 1])
                 /\ ealerts' = ealerts
                 /\ epc' = IF Len(attempts') < Len(ealerts) THEN "publish"
                           ELSE IF continuous THEN "sleep" ELSE "exit"]_vars

(* C13 witness: a cycle with two alerts ended; the publish of the first    *)
(* failed at the list push, that of the second at the channel publish, and *)
(* both were attempted.                                                    *)
C13_Witness ==
    /\ CycleOver
    /\ redis_client
    /\ Len(ealerts) = 2
    /\ attempts = ealerts
    /\ pushed = <<ealerts[2]>>
    /\ channel = <<>>

----------------------------------------------------------------------------
(* Properties of the batch driver under storage failures (SpecBatch).      *)

(* No history can be had for device d: there is no database, or            *)
(* get_recent_data raises for d.                                           *)
HistoryUnavailable(d) == ~database \/ store[d] = None

(* A reading that alerts against the nominal constants: a bound violated,  *)
(* or a metric at least 3 nominal standard deviations from its nominal     *)
(* mean.                                                                   *)
NominalAlert(r) ==
    \/ r.voltage < 200 \/ r.voltage > 250
    \/ Abs(r.voltage - 230) >= 3 * 5
    \/ Abs(r.current - 4) >= 3 * 1
    \/ r.temperature > 70
    \/ Abs(r.temperature - 35) >= 3 * 5

(* The batch result holds an alert for reading r.                          *)
Flagged(r) ==
    \E j \in 1..Len(balerts) :
        balerts[j].device_id = r.device_id /\ balerts[j].timestamp = r.timestamp

(* Reading i of the batch is the first one of its device.                  *)
FirstOfDevice(i) ==
    \A k \in 1..(i - 1) : sensor_data_list[k].device_id # sensor_data_list[i].device_id

(* C14: in detect_anomalies_batch, when there is no database or            *)
(* get_recent_data raises for a device, the call still returns: every      *)
(* reading of that device is evaluated with no history, i.e. against the   *)
(* nominal constants, and the readings of the other devices are evaluated  *)
(* against their own history.                                              *)
C14_HistoryFailureIsNoHistory ==
    /\ (bpc = "eval" /\ HistoryUnavailable(groups[gi])) => historical = None
    /\ bpc = "done" =>
           \A i \in 1..Len(sensor_data_list) :
               LET r == sensor_data_list[i]
               IN  /\ HistoryUnavailable(r.device_id)
                          => (Flagged(r) <=> NominalAlert(r))
                   /\ (~HistoryUnavailable(r.device_id) /\ FirstOfDevice(i))
                          => (Flagged(r) <=>
                                 detect_anomaly(r, Some(store[r.device_id][1])) # None)

(* C14 witness: get_recent_data raised for d1 and worked for d2; both      *)
(* readings of d1 alerted against the nominal constants and the reading of *)
(* d2, which came between them, alerted against its stored history.        *)
C14_Witness ==
    /\ bpc = "done"
    /\ database
    /\ store["d1"] = None
    /\ store["d2"] # None /\ store["d2"][1] # <<>>
    /\ Len(sensor_data_list) = 3
    /\ sensor_data_list[1].device_id = "d1"
    /\ sensor_data_list[2].device_id = "d2"
    /\ sensor_data_list[3].device_id = "d1"
    /\ Len(balerts) = 3
    /\ balerts[3].device_id = "d2"

----------------------------------------------------------------------------
(* Properties of all three entry points (SpecAlerts).                      *)

(* The alert carries the device_id and timestamp of the reading.           *)
AlertOf(alert, reading) ==
    alert.device_id = reading.device_id /\ alert.timestamp = reading.timestamp

(* Every alert is the alert of a reading of the list, and no reading of    *)
(* the list has two alerts.  The readings of a list differ in timestamp.   *)
OnePerReading(alerts, list) ==
    /\ \A j \in 1..Len(alerts) : \E i \in 1..Len(list) : AlertOf(alerts[j], list[i])
    /\ \A i \in 1..Len(list) :
           Cardinality({j \in 1..Len(alerts) : AlertOf(alerts[j], list[i])}) <= 1

(* C18: detect_anomaly returns at most one alert for its reading;          *)
(* detect_anomalies_batch and the engine's detect_anomalies return at most *)
(* one alert per reading of their input; every alert returned carries the  *)
(* device_id and timestamp of the reading that caused it.                  *)
C18_AtMostOneAlertPerReading ==
    /\ Returned =>
           /\ Len(result) <= 1
           /\ \A j \in 1..Len(result) : AlertOf(result[j], sensor_data)
    /\ bpc \in {"fetch", "eval", "done"} => OnePerReading(balerts, sensor_data_list)
    /\ call.op = "detect_anomalies" => OnePerReading(call.alerts, call.batch)

(* C18 witness: a batch of three readings returned three alerts, one for   *)
(* each, although the first reading raised more than one alert against its *)
(* stored history.                                                         *)
C18_Witness ==
    /\ bpc = "done"
    /\ database
    /\ Len(sensor_data_list) = 3
    /\ Len(balerts) = 3
    /\ store[sensor_data_list[1].device_id] # None
    /\ Len(RaisedAlerts(sensor_data_list[1],
                        Some(store[sensor_data_list[1].device_id][1]))) >= 2
    /\ OnePerReading(balerts, sensor_data_list)

(* C18 witness for the engine: a direct detect_anomalies call returned one *)
(* alert for each of its two readings.                                     *)
C18_EngineWitness ==
    /\ Scored
    /\ Len(call.batch) = 2
    /\ Len(call.alerts) = 2
    /\ AlertOf(call.alerts[1], call.batch[1])
    /\ AlertOf(call.alerts[2], call.batch[2])

(* C18 witness for detect_anomaly: three alerts raised, one returned.      *)
C18_DetectWitness ==
    /\ Returned
    /\ Len(raised) = 3
    /\ Len(result) = 1
    /\ AlertOf(result[1], sensor_data)

----------------------------------------------------------------------------
(* Properties of TelemetryHandler.validate (SpecValidate).                 *)

Validated == vpc = "returned"

VoltageValid == telemetry.voltage \in 200..250
CurrentValid == telemetry.current \in 0..10
TemperatureValid == telemetry.temperature \in 0..80

(* The first metric out of its range, in the order voltage, current,       *)
(* temperature.                                                            *)
FirstViolated ==
    CASE ~VoltageValid -> "Voltage"
      [] VoltageValid /\ ~CurrentValid -> "Current"
      [] OTHER -> "Temperature"

(* C19: validate returns (True, None) exactly when the voltage is in       *)
(* [200, 250], the current in [0, 10] and the temperature in [0, 80],      *)
(* bounds included; otherwise it returns (False, message) and the message  *)
(* names the first violated metric in the order voltage, current,          *)
(* temperature.                                                            *)
C19_TelemetryValidation ==
    Validated =>
        LET r == validation[1]
            allValid == VoltageValid /\ CurrentValid /\ TemperatureValid
        IN  /\ (r.is_valid /\ r.error = None) <=> allValid
            /\ ~allValid =>
                   /\ ~r.is_valid
                   /\ r.error # None
                   /\ r.error[1].metric = FirstViolated

(* C19 witness: the voltage sits on its upper bound, the current and the   *)
(* temperature are both out of range, and the message names the current.   *)
C19_Witness ==
    /\ Validated
    /\ telemetry.voltage = 250
    /\ telemetry.current = 11
    /\ telemetry.temperature = 81
    /\ ~validation[1].is_valid
    /\ validation[1].error[1].metric = "Current"

(* C19 witness of the valid case: every metric on a bound.                 *)
C19_ValidWitness ==
    /\ Validated
    /\ telemetry.voltage = 200
    /\ telemetry.current = 10
    /\ telemetry.temperature = 0
    /\ validation[1] = [is_valid |-> TRUE, error |-> <<>>]

----------------------------------------------------------------------------
(* Properties of the SensorData conversions (SpecRoundTrip).               *)

(* a == b for two datetimes that are both naive or both carry the same UTC *)
(* offset: every field agrees.                                             *)
SameDatetime(a, b) ==
    /\ a.type = "datetime" /\ b.type = "datetime"
    /\ a.year = b.year /\ a.month = b.month /\ a.day = b.day
    /\ a.hour = b.hour /\ a.minute = b.minute /\ a.second = b.second
    /\ a.microsecond = b.microsecond
    /\ a.tzinfo = b.tzinfo

(* a == b for two numbers, int or float.                                   *)
SameNumber(a, b) == a.value = b.value

(* C20: for every SensorData d whose timestamp is a datetime,              *)
(* from_dict(d.to_dict()) equals d in device_id, timestamp, voltage,       *)
(* current and temperature.                                                *)
C20_SensorDataRoundTrip ==
    (rpc = "done" /\ original[1].timestamp.type = "datetime") =>
        /\ restored[1].device_id = original[1].device_id
        /\ SameDatetime(restored[1].timestamp, original[1].timestamp)
        /\ SameNumber(restored[1].voltage, original[1].voltage)
        /\ SameNumber(restored[1].current, original[1].current)
        /\ SameNumber(restored[1].temperature, original[1].temperature)

(* C20 witness: a reading with one microsecond, a negative UTC offset and  *)
(* an int voltage went through to_dict, whose timestamp is text, and       *)
(* from_dict, and came back equal.                                         *)
C20_Witness ==
    /\ rpc = "done"
    /\ original[1].timestamp.type = "datetime"
    /\ original[1].timestamp.microsecond = 1
    /\ original[1].timestamp.tzinfo = Some(-90)
    /\ original[1].voltage.type = "int"
    /\ data_dict[1].timestamp.type = "str"
    /\ Len(data_dict[1].timestamp.text) = 32
    /\ restored[1].voltage.type = "float"
    /\ SameDatetime(restored[1].timestamp, original[1].timestamp)

----------------------------------------------------------------------------
(* The entries of a sequence.                                              *)
Range(s) == {s[i] : i \in 1..Len(s)}

(* A step of the inner loop that appended a reading to a full context.     *)
AppendedToFull ==
    /\ bpc = "eval"
    /\ bpc' = "eval"
    /\ ~IsNone(historical)
    /\ Len(Get(historical)) = HistoryLimit
    /\ historical' # historical

(* The entries a step removed from the context.                            *)
Evicted == Range(Get(historical)) \ Range(Get(historical'))

(* C21: when appending a reading to a device's context of 100 entries     *)
(* overflows it, the entry evicted is the oldest reading of the context,   *)
(* so the context keeps the most recent readings (the stored history is    *)
(* delivered newest first).                                                *)
C21_EvictsOldest ==
    [][AppendedToFull =>
          \A e \in Evicted :
              \A r \in Range(Get(historical)) : e.timestamp <= r.timestamp]_vars

(* C22: whenever detect_anomalies_batch evaluates a reading, the context   *)
(* it passes to detect_anomaly for that device holds at most 100           *)
(* readings, whatever the batch and the stored history.                    *)
C22_ContextAtMostLimit ==
    bpc = "eval" =>
        (IsNone(historical) \/ Len(Get(historical)) <= HistoryLimit)

(* A full context whose newest entry is a reading of the batch, for a      *)
(* device with more than 100 stored rows.                                  *)
C22_Witness ==
    /\ bpc = "eval"
    /\ di > 1
    /\ di <= Len(device_data)
    /\ ~IsNone(historical)
    /\ Len(Get(historical)) = HistoryLimit
    /\ Get(historical)[HistoryLimit] = device_data[di - 1]
    /\ Len(Get(store[groups[gi]])) > HistoryLimit

(* The readings of device d in the batch, in batch order.                  *)
OwnReadings(d) == SelectSeq(sensor_data_list, LAMBDA r : r.device_id = d)

RECURSIVE AlertsAlone(_, _)
(* The alerts of a run of readings of one device evaluated on their own,   *)
(* starting from the context hist.                                         *)
AlertsAlone(readings, hist) ==
    IF readings = <<>> THEN <<>>
    ELSE LET alert == detect_anomaly(Head(readings), hist)
         IN  alert \o AlertsAlone(Tail(readings),
                                  ContextAfter(hist, Head(readings), alert))

(* C23: the alerts detect_anomalies_batch returns for one device are those *)
(* of that device's own readings taken in their order from its own stored  *)
(* history; the other devices' readings and the interleaving play no part. *)
C23_DeviceIndependence ==
    bpc = "done" =>
        \A d \in Devices :
            SelectSeq(balerts, LAMBDA a : a.device_id = d)
                = AlertsAlone(OwnReadings(d), FetchHistory(d))

(* An interleaved batch d1, d2, d1 in which both devices have a stored     *)
(* history, differing from each other, and both raise alerts.              *)
C23_Witness ==
    /\ bpc = "done"
    /\ Len(sensor_data_list) = 3
    /\ sensor_data_list[1].device_id = "d1"
    /\ sensor_data_list[2].device_id = "d2"
    /\ sensor_data_list[3].device_id = "d1"
    /\ database
    /\ ~IsNone(store["d1"])
    /\ ~IsNone(store["d2"])
    /\ Len(Get(store["d1"])) # Len(Get(store["d2"]))
    /\ \A d \in Devices : \E i \in 1..Len(balerts) : balerts[i].device_id = d

(* A step in which a train_model call fitted both the scaler and the       *)
(* forest on at least 10 readings.                                         *)
FitCompleted ==
    /\ train_calls' = train_calls + 1
    /\ scaler' = train_calls'
    /\ ~IsNone(isolation_forest')
    /\ Get(isolation_forest').made = train_calls'
    /\ Get(isolation_forest').fitted

(* Nothing has been called on the engine yet.                              *)
FreshEngine == call.seq = 0 /\ train_calls = 0 /\ steps = <<>>

(* C24: the engine starts untrained; a train_model call on at least 10     *)
(* readings whose fitting completes leaves is_trained true; and once       *)
(* is_trained is true no operation (scoring, a detection cycle, a skipped  *)
(* or failed training) sets it back to false.                              *)
C24_ModelLifecycle ==
    /\ [](FreshEngine => ~is_trained)
    /\ [][FitCompleted => is_trained']_vars
    /\ [][is_trained => is_trained']_vars

(* A trained engine whose second train_model call raised.                  *)
C24_Witness ==
    /\ is_trained
    /\ train_calls = 2
    /\ call.op = "train_model"
    /\ call.n >= MinTrainingSamples
    /\ call.raised

(* A trained engine in its second detection cycle.                         *)
C24_CycleWitness ==
    /\ is_trained
    /\ cycle = 2
    /\ epc = "publish"

(* C25: once is_trained is true no detection cycle, single-pass or         *)
(* continuous, fetches training data or calls train_model again: the       *)
(* fitted scaler and forest are the same at the end of every later cycle   *)
(* as at its start.                                                        *)
C25_NoAutomaticRetrain ==
    /\ [](is_trained => epc # "training")
    /\ [][is_trained => UNCHANGED objVars]_vars

(* The second cycle of a continuous run has scored with the model of the   *)
(* only training.                                                          *)
C25_Witness ==
    /\ continuous
    /\ is_trained
    /\ train_calls = 1
    /\ cycle = 2
    /\ epc = "sleep"
    /\ Len(steps) >= 2
    /\ steps[1] = "fetch"
    /\ steps[2] = "detect_anomalies"

(* The cycle under way fetched an empty list of recent readings.           *)
EmptyBatchCycle == steps # <<>> /\ steps[1] = "fetch" /\ recent_data = <<>>

(* C26: a detection cycle whose fetch of recent readings returns an empty  *)
(* list does nothing further, trained or not: no training fetch, no        *)
(* training, no scoring, nothing published, and the cycle is over.         *)
C26_EmptyBatchNoOp ==
    /\ [](EmptyBatchCycle =>
            /\ steps = <<"fetch">>
            /\ epc \in {AfterCycle, "cycle"}
            /\ ealerts = <<>>
            /\ attempts = <<>>
            /\ pushed = <<>>
            /\ channel = <<>>)
    /\ [][EmptyBatchCycle' => UNCHANGED objVars]_vars

(* An untrained engine ended a cycle on an empty fetch.                    *)
C26_Witness ==
    /\ EmptyBatchCycle
    /\ ~is_trained
    /\ cycle >= 1
    /\ epc = AfterCycle

(* A cycle of the continuous loop is about to start on an untrained        *)
(* engine.                                                                 *)
Retryable == continuous /\ epc = "cycle" /\ cycle < MaxCycles /\ ~is_trained

(* What kept the cycle just over from training the model: storage raised   *)
(* or returned no recent readings, the training fetch raised or returned   *)
(* nothing, train_model found fewer than 10 readings and fitted nothing,   *)
(* or a fit raised.                                                        *)
Hindered ==
    /\ CycleOver
    /\ steps # <<>>
    /\ \/ steps[Len(steps)] \in {"fetch_raised", "training_fetch_raised",
                                 "train_model_raised"}
       \/ recent_data = <<>>
       \/ steps = <<"fetch", "training_fetch">>
       \/ /\ Len(steps) >= 3
          /\ steps[3] = "train_model"
          /\ scaler # train_calls

(* C27: in continuous mode, as long as the engine is untrained every cycle *)
(* that obtains a non-empty batch attempts the training again; so a        *)
(* scheduled cycle ends with the engine trained unless storage or the fit  *)
(* stood in the way, and with storage returning a non-empty batch and at   *)
(* least 10 training readings the engine eventually becomes trained.       *)
C27_TrainingRetried ==
    /\ [][(epc = "cycle" /\ ~is_trained /\ cycle' = cycle + 1
              /\ recent_data' # <<>>) => epc' = "training"]_vars
    /\ \A c \in 0..(MaxCycles - 1) :
           [](Retryable /\ cycle = c
                 => <>(is_trained \/ (cycle = c + 1 /\ Hindered)))

(* The second cycle trained an engine that startup and the first cycle     *)
(* had left untrained.                                                     *)
C27_Witness ==
    /\ continuous
    /\ cycle = 2
    /\ is_trained
    /\ train_calls = 1
    /\ Len(steps) >= 3
    /\ steps[2] = "training_fetch"
    /\ steps[3] = "train_model"

(* C28: cancellation of the continuous loop takes effect between cycles    *)
(* only: when the loop has stopped, every alert the last cycle produced    *)
(* has had its publish attempt, so no cycle is left partially published.   *)
C28_GracefulCancellation == epc = "cancelled" => attempts = ealerts

----------------------------------------------------------------------------
(* Properties of the ingestion service (SpecIngest).                       *)

(* The measurements of a reading lie in the accepted ranges.               *)
InRanges(r) ==
    /\ 200 <= r.voltage /\ r.voltage <= 250
    /\ 0 <= r.current /\ r.current <= 10
    /\ 0 <= r.temperature /\ r.temperature <= 80

(* The readings handed to insert_batch so far.                             *)
Inserted == UNION {Range(inserts[k].batch) : k \in 1..Len(inserts)}

(* C29: process_mqtt_message queues a reading only if validate accepts     *)
(* it, consume_queue batches only readings it took from the queue and      *)
(* inserts only its batch; so every reading handed to storage has voltage  *)
(* in [200, 250], current in [0, 10] and temperature in [0, 80].           *)
C29_OnlyValidatedStored ==
    /\ [](\A r \in Range(message_queue) : validate(r).is_valid)
    /\ [](\A r \in Inserted : InRanges(r))
    /\ [][pending_batch' # pending_batch =>
             \/ pending_batch' = <<>>
             \/ /\ message_queue # <<>>
                /\ pending_batch' = Append(pending_batch, Head(message_queue))]_vars
    /\ [][inserts' # inserts =>
             /\ Len(inserts') = Len(inserts) + 1
             /\ inserts'[Len(inserts')].batch = pending_batch]_vars

(* A boundary reading was stored while other messages were turned away.    *)
C29_Witness ==
    /\ \E k \in 1..Len(inserts) :
           /\ inserts[k].ok
           /\ \E r \in Range(inserts[k].batch) :
                  r.voltage = 250 /\ r.current = 10 /\ r.temperature = 80
    /\ Received > Cardinality(Inserted) + Len(pending_batch) + Len(message_queue)

(* C30: every batch handed to insert_batch holds between 1 and 100         *)
(* readings; a reading is part of at most one insert attempt, the batch    *)
(* being cleared after every attempt, failed or not; and a non-empty batch *)
(* is inserted as soon as it holds 100 readings or the queue is found      *)
(* empty.                                                                  *)
C30_IngestionBatching ==
    /\ [](\A k \in 1..Len(inserts) :
             /\ 1 <= Len(inserts[k].batch)
             /\ Len(inserts[k].batch) <= 100
             /\ Range(inserts[k].batch)
                    \cap (Range(pending_batch) \cup Range(message_queue)) = {}
             /\ \A j \in 1..(k - 1) :
                    Range(inserts[j].batch) \cap Range(inserts[k].batch) = {})
    /\ [](ipc = "get" /\ pending_batch # <<>> =>
             Len(pending_batch) < 100 /\ message_queue # <<>>)
    /\ [](ipc = "insert" => pending_batch # <<>>)
    /\ [][inserts' # inserts => pending_batch' = <<>>]_vars

(* A full batch of 100 whose insert failed, then the next reading stored   *)
(* in a batch of its own.                                                  *)
C30_Witness ==
    /\ Len(inserts) = 2
    /\ Len(inserts[1].batch) = 100
    /\ ~inserts[1].ok
    /\ Len(inserts[2].batch) = 1
    /\ inserts[2].ok

====
